---- MODULE Spec2Model ----
(***************************************************************************)
(* A model of gimli's cursor layer: the Reader contract (read/reader.rs),  *)
(* the zero-copy EndianSlice backend (read/endian_slice.rs), the buffered  *)
(* SectionBuffer/SectionReader backend (examples/bufreader.rs), the        *)
(* initial-length decoder and the encoded-pointer resolver (read/mod.rs).  *)
(*                                                                         *)
(* A byte is a number in 0..255.  A u64 is a tuple of eight bytes, least   *)
(* significant first, because TLC's integers are 32 bits wide; arithmetic  *)
(* on u64 values is done limb by limb and wraps modulo 2^64.               *)
(***************************************************************************)
EXTENDS Integers, Sequences, FiniteSets, TLC

VARIABLES
    backend,    \* which Reader implementation the session uses: "slice" | "buffered"
    file,       \* the bytes of the underlying file (fs::File), never written
    buffer,     \* the section's SectionBuffer (the RefCell's content)
    readers,    \* the live SectionReader cursors, in creation order
    slices,     \* the live EndianSlice cursors, in creation order
    last,       \* the last Reader call: operation and what it returned
    twin,       \* two SectionBuffers over the same file and section
    twinres,    \* what the last request returned from each of the two
    mem,        \* the bytes of the section a decoder reads (an EndianSlice's data)
    endian,     \* the section's endianity: "Little" | "Big"
    rest,       \* the decoder's input cursor into mem
    bases,      \* SectionBaseAddresses: section, text, data and the function base
    target,     \* target_pointer_width of the build: 32 | 64
    res         \* what the last decoder call returned

vars == <<backend, file, buffer, readers, slices, last, twin, twinres,
          mem, endian, rest, bases, target, res>>

\* The variables of the two-buffer comparison and of the decoders.
twinVars == <<twin, twinres>>
decodeVars == <<mem, endian, rest, bases, target, res>>

(***************************************************************************)
(* Bounds of the model.                                                    *)
(***************************************************************************)
\* the section's offset in the file
SecOffset == 1
\* the section's declared size in bytes
SecSize == 4
\* how many cursors a session keeps alive at once
MaxCursors == 2

Min(a, b) == IF a <= b THEN a ELSE b
Max(a, b) == IF a >= b THEN a ELSE b

\* The byte the complete file holds at (0-based) offset k: 11, 48, 48, 191,
\* 228, ... so that the section holds a byte twice, bytes of their own
\* further on, and bytes that are not UTF-8 on their own.
FileByte(k) == (((k * k) % 3) * 37 + 11 + (k \div 3) * 180) % 256

\* A file of n bytes.
FileOfLen(n) == [i \in 1..n |-> FileByte(i - 1)]

\* The section's bytes as an in-memory slice (what EndianSlice::new is given).
Mem == [i \in 1..SecSize |-> FileByte(SecOffset + i - 1)]

\* Window capacities the buffered backend is run with: a one-byte window, a
\* window smaller than the section, and one larger than the whole file.
Capacities == {1, SecSize - 1, SecOffset + SecSize + 1}

\* The file either holds the whole section or ends one byte before its
\* declared end.
FileLens == {SecOffset + SecSize, SecOffset + SecSize - 1}

(***************************************************************************)
(* The file: Seek + Read::read_exact.                                      *)
(***************************************************************************)
NoFault == [kind |-> "none", k |-> 0]
Faults(n) == {NoFault, [kind |-> "seek", k |-> 0]}
                \cup {[kind |-> "read", k |-> k] : k \in 0..Max(n - 1, 0)}

\* read_exact of n bytes at position pos into dst[1..n]: the bytes when the
\* file has them all and no error strikes (a read fault strikes after k
\* bytes, and a read of no more than k is over before it); otherwise an
\* error, dst holding the bytes transferred before it.
ReadExact(f, pos, n, dst, fault) ==
    LET avail == Max(Len(f) - pos, 0)
        good  == /\ avail >= n
                 /\ fault.kind = "none" \/ (fault.kind = "read" /\ fault.k >= n)
        moved == IF good THEN n
                 ELSE IF fault.kind = "read" THEN Min(Min(fault.k, n), avail)
                 ELSE Min(avail, n)
    IN [ok  |-> good,
        dst |-> [j \in 1..Len(dst) |-> IF j <= moved THEN f[pos + j] ELSE dst[j]]]

(***************************************************************************)
(* SectionBuffer (examples/bufreader.rs).                                  *)
(***************************************************************************)
SectionBuffer_new(file_offset, file_size, capacity) ==
    [file_offset |-> file_offset,
     file_size   |-> file_size,
     buf         |-> [j \in 1..capacity |-> 0],
     buf_offset  |-> file_offset,
     buf_size    |-> 0]

IoErr(self, path) == [ok |-> FALSE, err |-> "Io", out |-> <<>>, self |-> self, path |-> path]

\* Mutant: the fast-path test looks at where the request starts only.
InWindow_by_start(self, file_offset, len) ==
    /\ file_offset >= self.buf_offset
    /\ self.buf_size >= file_offset - self.buf_offset
    /\ Len(self.buf) - (file_offset - self.buf_offset) >= len

\* The fast-path test: the request lies wholly inside the window.
InWindow(self, file_offset, len) ==
    /\ file_offset >= self.buf_offset
    /\ self.buf_size >= file_offset - self.buf_offset
    /\ self.buf_size - (file_offset - self.buf_offset) >= len

\* Mutant: the copy-out starts one byte into the window.
RefillCopyOut_from_second(buf, len) == SubSeq(buf, 2, Min(len + 1, Len(buf)))

\* The refill path's copy-out: the requested prefix of the window.
RefillCopyOut(buf, len) == SubSeq(buf, 1, len)

\* Mutant: the refill always reads a whole window.
RefillSize_unclipped(capacity, remaining) == capacity

\* The refill path's size: as much as the window holds, clipped to the section.
RefillSize(capacity, remaining) == Min(capacity, remaining)

\* Mutant: a large read goes through the window as well.
Bypass_through_window(self, f, file_offset, len, fault) ==
    LET r == ReadExact(f, file_offset, len, [j \in 1..len |-> 0], fault)
    IN IF fault.kind # "seek" /\ r.ok
       THEN [ok |-> TRUE, err |-> "none", out |-> r.dst,
             self |-> [self EXCEPT !.buf = SubSeq(r.dst, 1, Len(self.buf)),
                                   !.buf_offset = file_offset,
                                   !.buf_size = Len(self.buf)],
             path |-> "bypass"]
       ELSE IoErr(self, "bypass")

\* The bypass path: seek, and read_exact into the caller's buffer.
Bypass(self, f, file_offset, len, fault) ==
    IF fault.kind = "seek" THEN IoErr(self, "bypass")
    ELSE LET r == ReadExact(f, file_offset, len, [j \in 1..len |-> 0], fault)
         IN IF r.ok
            THEN [ok |-> TRUE, err |-> "none", out |-> r.dst,
                  self |-> self, path |-> "bypass"]
            ELSE IoErr(self, "bypass")

\* read_bytes_at(&mut self, file_offset, buf) with buf.len() = len: the
\* result, the bytes left in the caller's buffer and the buffer afterwards.
ReadBytesAt(self, f, file_offset, len, fault) ==
    IF InWindow(self, file_offset, len)
    THEN LET buf_start == file_offset - self.buf_offset
         IN [ok |-> TRUE, err |-> "none",
             out |-> SubSeq(self.buf, buf_start + 1, buf_start + len),
             self |-> self, path |-> "fast"]
    ELSE IF file_offset < self.file_offset THEN IoErr(self, "range")
    ELSE IF self.file_size < file_offset - self.file_offset THEN IoErr(self, "range")
    ELSE LET remaining == self.file_size - (file_offset - self.file_offset)
         IN IF len > remaining THEN IoErr(self, "range")
            ELSE IF len >= Len(self.buf)
            THEN Bypass(self, f, file_offset, len, fault)
            ELSE IF fault.kind = "seek" THEN IoErr(self, "refill")
                 ELSE LET buf_size == RefillSize(Len(self.buf), remaining)
                          r == ReadExact(f, file_offset, buf_size, self.buf, fault)
                      IN IF r.ok
                         THEN [ok |-> TRUE, err |-> "none",
                               out |-> RefillCopyOut(r.dst, len),
                               self |-> [self EXCEPT !.buf = r.dst,
                                                     !.buf_offset = file_offset,
                                                     !.buf_size = buf_size],
                               path |-> "refill"]
                         ELSE IoErr([self EXCEPT !.buf = r.dst], "refill")

(***************************************************************************)
(* What a Reader call returns, as recorded in `last`.                      *)
(***************************************************************************)
Call(op, ok, err, ret, out) ==
    [op |-> op, ok |-> ok, err |-> err, ret |-> ret, out |-> out]

NoCall == Call("none", TRUE, "none", <<>>, <<>>)

\* The caller keeps a cursor a call returned, while it has room for it.
Keep(cursors, ret) == IF Len(cursors) < MaxCursors THEN cursors \o ret ELSE cursors

\* Lengths a caller asks for: everything up to one more than the section holds.
Lens == 0..(SecSize + 1)

\* What a call that leaves its cursor alone was made on and with, and what it
\* gave back.
Query(op, cursor, arg, ok, err, out) ==
    [op |-> op, ok |-> ok, err |-> err, ret |-> <<>>, out |-> out,
     cursor |-> cursor, arg |-> arg]

\* Bytes a caller searches for: each byte of the section, and the zero byte,
\* which the section does not hold and a fresh window is filled with.
FindBytes == {FileByte(k) : k \in SecOffset..(SecOffset + SecSize - 1)} \cup {0}

(***************************************************************************)
(* UTF-8, as str::from_utf8 and String::from_utf8_lossy read it: a string  *)
(* is the sequence of its characters' code points.                         *)
(***************************************************************************)
REPLACEMENT_CHARACTER == 65533

\* The length of the sequence a first byte announces; 0 for a byte that
\* starts none (a continuation byte, 0xC0, 0xC1, 0xF5 and above).
Utf8_width(first) ==
    IF first < 128 THEN 1
    ELSE IF first \in 194..223 THEN 2
    ELSE IF first \in 224..239 THEN 3
    ELSE IF first \in 240..244 THEN 4
    ELSE 0

\* The bytes allowed in the k-th place (k >= 2) of a sequence: the second
\* byte is narrowed after 0xE0, 0xED, 0xF0 and 0xF4.
Utf8_continuation(first, k) ==
    IF k = 2 /\ first = 224 THEN 160..191
    ELSE IF k = 2 /\ first = 237 THEN 128..159
    ELSE IF k = 2 /\ first = 240 THEN 144..191
    ELSE IF k = 2 /\ first = 244 THEN 128..143
    ELSE 128..191

\* How many of the places 2..w after the first byte at j hold an allowed
\* byte, one after another.
RECURSIVE Utf8_good(_, _, _, _)
Utf8_good(bytes, j, w, k) ==
    IF k > w \/ j + k - 1 > Len(bytes) THEN k - 2
    ELSE IF bytes[j + k - 1] \in Utf8_continuation(bytes[j], k)
    THEN Utf8_good(bytes, j, w, k + 1)
    ELSE k - 2

\* The code point of the complete sequence of w bytes at j.
Utf8_code_point(bytes, j, w) ==
    IF w = 1 THEN bytes[j]
    ELSE IF w = 2 THEN (bytes[j] - 192) * 64 + (bytes[j + 1] - 128)
    ELSE IF w = 3 THEN (bytes[j] - 224) * 4096 + (bytes[j + 1] - 128) * 64
                       + (bytes[j + 2] - 128)
    ELSE (bytes[j] - 240) * 262144 + (bytes[j + 1] - 128) * 4096
         + (bytes[j + 2] - 128) * 64 + (bytes[j + 3] - 128)

\* One step of the decoder at j: a character and its length, or the length
\* of the broken sequence (its first byte and the allowed bytes after it).
Utf8_next(bytes, j) ==
    LET w == Utf8_width(bytes[j])
        good == IF w = 0 THEN 0 ELSE Utf8_good(bytes, j, w, 2)
    IN IF w # 0 /\ good = w - 1
       THEN [ok |-> TRUE, len |-> w, ch |-> Utf8_code_point(bytes, j, w)]
       ELSE [ok |-> FALSE, len |-> 1 + good, ch |-> REPLACEMENT_CHARACTER]

\* The characters from j on, after those of acc: from_utf8 stops at the
\* first broken sequence, from_utf8_lossy puts U+FFFD in its place.
RECURSIVE Utf8_decode(_, _, _, _)
Utf8_decode(bytes, j, acc, lossy) ==
    IF j > Len(bytes) THEN [ok |-> TRUE, chars |-> acc]
    ELSE LET n == Utf8_next(bytes, j)
         IN IF n.ok \/ lossy
            THEN Utf8_decode(bytes, j + n.len, Append(acc, n.ch), lossy)
            ELSE [ok |-> FALSE, chars |-> <<>>]

from_utf8(bytes) == Utf8_decode(bytes, 1, <<>>, FALSE)
from_utf8_lossy(bytes) == Utf8_decode(bytes, 1, <<>>, TRUE).chars

(***************************************************************************)
(* EndianSlice (read/endian_slice.rs): a slice is its start, as an offset  *)
(* from the start of the section's bytes in memory, and its length.        *)
(***************************************************************************)
\* Where the empty static slice `&[]` lives: outside the section's bytes.
StaticEmpty == -1

EndianSlice_new(ptr, len) == [ptr |-> ptr, len |-> len]

\* The bytes a slice over the memory m views.
SliceBytesIn(m, s) == [j \in 1..s.len |-> m[s.ptr + j]]

\* The bytes a slice of the session's section views.
SliceBytes(s) == SliceBytesIn(Mem, s)

\* &self.slice[len..]
SliceFrom(s, len) == EndianSlice_new(s.ptr + len, s.len - len)

\* &self.slice[..len]
SliceTo(s, len) == EndianSlice_new(s.ptr, len)

\* Mutant: a read_slice that falls short leaves the cursor at its end.
Slice_read_slice_consuming(s, len) ==
    IF s.len < len
    THEN [ok |-> FALSE, err |-> "UnexpectedEof", val |-> <<>>, self |-> SliceFrom(s, s.len)]
    ELSE [ok |-> TRUE, err |-> "none", val |-> <<SliceTo(s, len)>>, self |-> SliceFrom(s, len)]

\* read_slice(&mut self, len): (ok, the slice returned, self afterwards)
Slice_read_slice(s, len) ==
    IF s.len < len
    THEN [ok |-> FALSE, err |-> "UnexpectedEof", val |-> <<>>, self |-> s]
    ELSE [ok |-> TRUE, err |-> "none", val |-> <<SliceTo(s, len)>>, self |-> SliceFrom(s, len)]

\* skip(&mut self, len)
Slice_skip(s, len) ==
    IF s.len < len
    THEN [ok |-> FALSE, err |-> "UnexpectedEof", self |-> s]
    ELSE [ok |-> TRUE, err |-> "none", self |-> SliceFrom(s, len)]

\* truncate(&mut self, len)
Slice_truncate(s, len) ==
    IF s.len < len
    THEN [ok |-> FALSE, err |-> "UnexpectedEof", self |-> s]
    ELSE [ok |-> TRUE, err |-> "none", self |-> SliceTo(s, len)]

\* iter().position(|x| *x == byte): the first place, counted from zero and
\* starting the walk at the (1-based) j, or nothing
RECURSIVE Position(_, _, _)
Position(bytes, byte, j) ==
    IF j > Len(bytes) THEN <<>>
    ELSE IF bytes[j] = byte THEN <<j - 1>>
    ELSE Position(bytes, byte, j + 1)

\* find(&self, byte) over the memory m
Slice_find(m, s, byte) ==
    LET pos == Position(SliceBytesIn(m, s), byte, 1)
    IN IF pos # <<>>
       THEN [ok |-> TRUE, err |-> "none", val |-> pos]
       ELSE [ok |-> FALSE, err |-> "UnexpectedEof", val |-> <<>>]

SliceSkip(i, n) ==
    /\ backend = "slice"
    /\ LET r == Slice_skip(slices[i], n)
       IN /\ slices' = [slices EXCEPT ![i] = r.self]
          /\ last' = Call("skip", r.ok, r.err, <<>>, <<>>)
    /\ UNCHANGED <<backend, file, buffer, readers, twinVars, decodeVars>>

\* split(&mut self, len): read_slice, then a new EndianSlice over what it gave
SliceSplit(i, n) ==
    /\ backend = "slice"
    /\ LET r == Slice_read_slice(slices[i], n)
       IN /\ slices' = Keep([slices EXCEPT ![i] = r.self], r.val)
          /\ last' = Call("split", r.ok, r.err, r.val, <<>>)
    /\ UNCHANGED <<backend, file, buffer, readers, twinVars, decodeVars>>

SliceTruncate(i, n) ==
    /\ backend = "slice"
    /\ LET r == Slice_truncate(slices[i], n)
       IN /\ slices' = [slices EXCEPT ![i] = r.self]
          /\ last' = Call("truncate", r.ok, r.err, <<>>, <<>>)
    /\ UNCHANGED <<backend, file, buffer, readers, twinVars, decodeVars>>

\* empty(&mut self): self.slice = &[]
SliceEmpty(i) ==
    /\ backend = "slice"
    /\ slices' = [slices EXCEPT ![i] = EndianSlice_new(StaticEmpty, 0)]
    /\ last' = Call("empty", TRUE, "none", <<>>, <<>>)
    /\ UNCHANGED <<backend, file, buffer, readers, twinVars, decodeVars>>

\* read_u8_array::<[u8; n]>(&mut self): read_slice(n), copied into the array
SliceRead(i, n) ==
    /\ backend = "slice"
    /\ LET r == Slice_read_slice(slices[i], n)
       IN /\ slices' = [slices EXCEPT ![i] = r.self]
          /\ last' = Call("read", r.ok, r.err, <<>>,
                          IF r.ok THEN SliceBytes(r.val[1]) ELSE <<>>)
    /\ UNCHANGED <<backend, file, buffer, readers, twinVars, decodeVars>>

\* Where the empty static slice may lie for a comparison of addresses: the
\* language does not say, so below the section's bytes or above them.
EmptyPlaces == {StaticEmpty, SecSize + 1}

\* EndianSlice::offset_from(&self, base), in a build with debug assertions
\* or without: the two assertions, then ptr - base_ptr (a negative
\* difference stands for the value it wraps around to).
Slice_offset_from_checked(s, base, debug) ==
    IF debug /\ ~(base.ptr <= s.ptr)
    THEN [ok |-> FALSE, err |-> "panic", val |-> <<>>]
    ELSE IF debug /\ ~(s.ptr + s.len <= base.ptr + base.len)
    THEN [ok |-> FALSE, err |-> "panic", val |-> <<>>]
    ELSE [ok |-> TRUE, err |-> "none", val |-> <<s.ptr - base.ptr>>]

\* The cursor offset_from is given as base: the one over the whole section,
\* which every other cursor of the session is derived from.
BaseSlice == EndianSlice_new(0, SecSize)

SliceOffsetFrom(i, debug, place) ==
    /\ backend = "slice"
    /\ LET s == IF slices[i].ptr = StaticEmpty
                THEN EndianSlice_new(place, slices[i].len)
                ELSE slices[i]
           r == Slice_offset_from_checked(s, BaseSlice, debug)
       IN last' = Query("offset_from", i, debug, r.ok, r.err, r.val)
    /\ UNCHANGED <<backend, file, buffer, readers, slices, twinVars, decodeVars>>

\* to_slice(&self)
Slice_to_slice(m, s) ==
    [ok |-> TRUE, err |-> "none", out |-> SliceBytesIn(m, s), self |-> s]

\* to_string(&self)
Slice_to_string(m, s) ==
    LET u == from_utf8(SliceBytesIn(m, s))
    IN IF u.ok THEN [ok |-> TRUE, err |-> "none", out |-> u.chars, self |-> s]
       ELSE [ok |-> FALSE, err |-> "BadUtf8", out |-> <<>>, self |-> s]

\* to_string_lossy(&self)
Slice_to_string_lossy(m, s) ==
    [ok |-> TRUE, err |-> "none", out |-> from_utf8_lossy(SliceBytesIn(m, s)), self |-> s]

SliceToSlice(i) ==
    /\ backend = "slice"
    /\ LET r == Slice_to_slice(Mem, slices[i])
       IN /\ slices' = [slices EXCEPT ![i] = r.self]
          /\ last' = Query("to_slice", i, 0, r.ok, r.err, r.out)
    /\ UNCHANGED <<backend, file, buffer, readers, twinVars, decodeVars>>

SliceToString(i) ==
    /\ backend = "slice"
    /\ LET r == Slice_to_string(Mem, slices[i])
       IN /\ slices' = [slices EXCEPT ![i] = r.self]
          /\ last' = Query("to_string", i, 0, r.ok, r.err, r.out)
    /\ UNCHANGED <<backend, file, buffer, readers, twinVars, decodeVars>>

SliceToStringLossy(i) ==
    /\ backend = "slice"
    /\ LET r == Slice_to_string_lossy(Mem, slices[i])
       IN /\ slices' = [slices EXCEPT ![i] = r.self]
          /\ last' = Query("to_string_lossy", i, 0, r.ok, r.err, r.out)
    /\ UNCHANGED <<backend, file, buffer, readers, twinVars, decodeVars>>

SliceFind(i, byte) ==
    /\ backend = "slice"
    /\ LET r == Slice_find(Mem, slices[i], byte)
       IN last' = Query("find", i, byte, r.ok, r.err, r.val)
    /\ UNCHANGED <<backend, file, buffer, readers, slices, twinVars, decodeVars>>

(***************************************************************************)
(* SectionReader (examples/bufreader.rs).                                  *)
(***************************************************************************)
SectionReader_new(range_start, range_size) ==
    [range_start |-> range_start, range_size |-> range_size]

\* Mutant: the start moves and the size is left as it was.
Reader_advance_start_only(r, len) == SectionReader_new(r.range_start + len, r.range_size)

\* self.range_start += len; self.range_size -= len
Reader_advance(r, len) == SectionReader_new(r.range_start + len, r.range_size - len)

\* Mutant: skip does not compare len with what is left.
Reader_skip_unchecked(r, len) ==
    [ok |-> TRUE, err |-> "none", self |-> Reader_advance(r, len)]

\* skip(&mut self, len)
Reader_skip(r, len) ==
    IF r.range_size < len
    THEN [ok |-> FALSE, err |-> "UnexpectedEof", self |-> r]
    ELSE [ok |-> TRUE, err |-> "none", self |-> Reader_advance(r, len)]

\* Mutant: split forgets `copy.range_size = len`.
Reader_split_keeps_size(r, len) ==
    IF r.range_size < len
    THEN [ok |-> FALSE, err |-> "UnexpectedEof", val |-> <<>>, self |-> r]
    ELSE [ok |-> TRUE, err |-> "none", val |-> <<r>>, self |-> Reader_advance(r, len)]

Reader_split(r, len) ==
    IF r.range_size < len
    THEN [ok |-> FALSE, err |-> "UnexpectedEof", val |-> <<>>, self |-> r]
    ELSE [ok |-> TRUE, err |-> "none",
          val |-> <<SectionReader_new(r.range_start, len)>>,
          self |-> Reader_advance(r, len)]

\* Mutant: truncate sets the length without comparing it.
Reader_truncate_unchecked(r, len) ==
    [ok |-> TRUE, err |-> "none", self |-> SectionReader_new(r.range_start, len)]

Reader_truncate(r, len) ==
    IF r.range_size < len
    THEN [ok |-> FALSE, err |-> "UnexpectedEof", self |-> r]
    ELSE [ok |-> TRUE, err |-> "none", self |-> SectionReader_new(r.range_start, len)]

\* Mutant: the read is made where the window stands, not where the cursor does.
Reader_read_slice_at_window(r, sb, f, len, fault) ==
    IF r.range_size < len
    THEN [ok |-> FALSE, err |-> "UnexpectedEof", out |-> <<>>, self |-> r, buffer |-> sb]
    ELSE LET b == ReadBytesAt(sb, f, sb.buf_offset, len, fault)
         IN IF b.ok
            THEN [ok |-> TRUE, err |-> "none", out |-> b.out,
                  self |-> Reader_advance(r, len), buffer |-> b.self]
            ELSE [ok |-> FALSE, err |-> b.err, out |-> <<>>, self |-> r, buffer |-> b.self]

\* read_slice(&mut self, buf) with buf.len() = len
Reader_read_slice(r, sb, f, len, fault) ==
    IF r.range_size < len
    THEN [ok |-> FALSE, err |-> "UnexpectedEof", out |-> <<>>, self |-> r, buffer |-> sb]
    ELSE LET b == ReadBytesAt(sb, f, r.range_start, len, fault)
         IN IF b.ok
            THEN [ok |-> TRUE, err |-> "none", out |-> b.out,
                  self |-> Reader_advance(r, len), buffer |-> b.self]
            ELSE [ok |-> FALSE, err |-> b.err, out |-> <<>>, self |-> r, buffer |-> b.self]

\* The chunk find reads at a time (4096 bytes in the source, half the
\* window's 8192), scaled to the section.
FindChunk == 2

\* Mutant: the place found in a chunk is given as if the chunk were the first.
Find_index_in_chunk(start, chunk_start, pos) == pos

\* (chunk_start - start) + pos
Find_index(start, chunk_start, pos) == (chunk_start - start) + pos

\* Mutant: a chunk is all that is left of the range.
Find_chunk_size_whole(end, chunk_start) == end - chunk_start

\* cmp::min(4096, end - chunk_start)
Find_chunk_size(end, chunk_start) == Min(FindChunk, end - chunk_start)

\* One read_bytes_at of the loop, as find's result lists it.
Chunk(chunk_start, chunk_size, b) ==
    <<[file_offset |-> chunk_start, len |-> chunk_size, ok |-> b.ok, out |-> b.out]>>

\* find(&self, byte): the loop from chunk_start on, with the window sb.  The
\* result lists the requests the loop made, in `chunks`.
RECURSIVE Find_loop(_, _, _, _, _)
Find_loop(r, sb, f, byte, chunk_start) ==
    IF ~(chunk_start < r.range_start + r.range_size)
    THEN [ok |-> FALSE, err |-> "UnexpectedEof", val |-> <<>>, buffer |-> sb,
          chunks |-> <<>>]
    ELSE LET chunk_size == Find_chunk_size(r.range_start + r.range_size, chunk_start)
             b == ReadBytesAt(sb, f, chunk_start, chunk_size, NoFault)
             pos == Position(b.out, byte, 1)
             made == Chunk(chunk_start, chunk_size, b)
         IN IF ~b.ok
            THEN [ok |-> FALSE, err |-> b.err, val |-> <<>>, buffer |-> b.self,
                  chunks |-> made]
            ELSE IF pos # <<>>
            THEN [ok |-> TRUE, err |-> "none",
                  val |-> <<Find_index(r.range_start, chunk_start, pos[1])>>,
                  buffer |-> b.self, chunks |-> made]
            ELSE [Find_loop(r, b.self, f, byte, chunk_start + chunk_size)
                     EXCEPT !.chunks = made \o @]

Reader_find(r, sb, f, byte) == Find_loop(r, sb, f, byte, r.range_start)

ReaderSkip(i, n) ==
    /\ backend = "buffered"
    /\ LET r == Reader_skip(readers[i], n)
       IN /\ readers' = [readers EXCEPT ![i] = r.self]
          /\ last' = Call("skip", r.ok, r.err, <<>>, <<>>)
    /\ UNCHANGED <<backend, file, buffer, slices, twinVars, decodeVars>>

ReaderSplit(i, n) ==
    /\ backend = "buffered"
    /\ LET r == Reader_split(readers[i], n)
       IN /\ readers' = Keep([readers EXCEPT ![i] = r.self], r.val)
          /\ last' = Call("split", r.ok, r.err, r.val, <<>>)
    /\ UNCHANGED <<backend, file, buffer, slices, twinVars, decodeVars>>

ReaderTruncate(i, n) ==
    /\ backend = "buffered"
    /\ LET r == Reader_truncate(readers[i], n)
       IN /\ readers' = [readers EXCEPT ![i] = r.self]
          /\ last' = Call("truncate", r.ok, r.err, <<>>, <<>>)
    /\ UNCHANGED <<backend, file, buffer, slices, twinVars, decodeVars>>

\* empty(&mut self): self.range_size = 0
ReaderEmpty(i) ==
    /\ backend = "buffered"
    /\ readers' = [readers EXCEPT ![i] = SectionReader_new(readers[i].range_start, 0)]
    /\ last' = Call("empty", TRUE, "none", <<>>, <<>>)
    /\ UNCHANGED <<backend, file, buffer, slices, twinVars, decodeVars>>

ReaderRead(i, n, fault) ==
    /\ backend = "buffered"
    /\ LET r == Reader_read_slice(readers[i], buffer, file, n, fault)
       IN /\ readers' = [readers EXCEPT ![i] = r.self]
          /\ buffer' = r.buffer
          /\ last' = Call("read", r.ok, r.err, <<>>, r.out)
    /\ UNCHANGED <<backend, file, slices, twinVars, decodeVars>>

\* Mutant: the difference is taken the other way round.
Reader_offset_from_reversed(r, base) == base.range_start - r.range_start

\* offset_from(&self, base): self.range_start - base.range_start
Reader_offset_from(r, base) == r.range_start - base.range_start

BaseReader == SectionReader_new(SecOffset, SecSize)

ReaderOffsetFrom(i) ==
    /\ backend = "buffered"
    /\ last' = Query("offset_from", i, FALSE, TRUE, "none",
                     <<Reader_offset_from(readers[i], BaseReader)>>)
    /\ UNCHANGED <<backend, file, buffer, readers, slices, twinVars, decodeVars>>

\* Mutant: to_slice takes its bytes as read_slice does, moving the cursor.
Reader_to_slice_by_reading(r, sb, f) ==
    Reader_read_slice(r, sb, f, r.range_size, NoFault)

\* to_slice(&self): the whole range through the window, self as it was
Reader_to_slice(r, sb, f) ==
    LET b == ReadBytesAt(sb, f, r.range_start, r.range_size, NoFault)
    IN [ok |-> b.ok, err |-> b.err, out |-> IF b.ok THEN b.out ELSE <<>>,
        self |-> r, buffer |-> b.self]

\* to_string(&self)
Reader_to_string(r, sb, f) ==
    LET b == ReadBytesAt(sb, f, r.range_start, r.range_size, NoFault)
        u == from_utf8(b.out)
    IN IF ~b.ok
       THEN [ok |-> FALSE, err |-> b.err, out |-> <<>>, self |-> r, buffer |-> b.self]
       ELSE IF u.ok
       THEN [ok |-> TRUE, err |-> "none", out |-> u.chars, self |-> r, buffer |-> b.self]
       ELSE [ok |-> FALSE, err |-> "BadUtf8", out |-> <<>>, self |-> r, buffer |-> b.self]

\* to_string_lossy(&self)
Reader_to_string_lossy(r, sb, f) ==
    LET b == ReadBytesAt(sb, f, r.range_start, r.range_size, NoFault)
    IN IF ~b.ok
       THEN [ok |-> FALSE, err |-> b.err, out |-> <<>>, self |-> r, buffer |-> b.self]
       ELSE [ok |-> TRUE, err |-> "none", out |-> from_utf8_lossy(b.out),
             self |-> r, buffer |-> b.self]

ReaderToSlice(i) ==
    /\ backend = "buffered"
    /\ LET r == Reader_to_slice(readers[i], buffer, file)
       IN /\ readers' = [readers EXCEPT ![i] = r.self]
          /\ buffer' = r.buffer
          /\ last' = Query("to_slice", i, 0, r.ok, r.err, r.out)
    /\ UNCHANGED <<backend, file, slices, twinVars, decodeVars>>

ReaderToString(i) ==
    /\ backend = "buffered"
    /\ LET r == Reader_to_string(readers[i], buffer, file)
       IN /\ readers' = [readers EXCEPT ![i] = r.self]
          /\ buffer' = r.buffer
          /\ last' = Query("to_string", i, 0, r.ok, r.err, r.out)
    /\ UNCHANGED <<backend, file, slices, twinVars, decodeVars>>

ReaderToStringLossy(i) ==
    /\ backend = "buffered"
    /\ LET r == Reader_to_string_lossy(readers[i], buffer, file)
       IN /\ readers' = [readers EXCEPT ![i] = r.self]
          /\ buffer' = r.buffer
          /\ last' = Query("to_string_lossy", i, 0, r.ok, r.err, r.out)
    /\ UNCHANGED <<backend, file, slices, twinVars, decodeVars>>

ReaderFind(i, byte) ==
    /\ backend = "buffered"
    /\ LET r == Reader_find(readers[i], buffer, file, byte)
       IN /\ buffer' = r.buffer
          /\ last' = Query("find", i, byte, r.ok, r.err, r.val)
    /\ UNCHANGED <<backend, file, readers, slices, twinVars, decodeVars>>

\* The variables a specification leaves alone.
TwinIdle == twin = <<>> /\ twinres = <<>>
DecodeIdle ==
    /\ mem = <<>> /\ endian = "Little" /\ rest = <<>>
    /\ bases = <<>> /\ target = 64 /\ res = <<>>
CursorIdle ==
    /\ backend = "none" /\ buffer = <<>> /\ readers = <<>>
    /\ slices = <<>> /\ last = NoCall

(***************************************************************************)
(* A parse session: one section, read through one of the two backends.     *)
(***************************************************************************)
Init ==
    /\ backend \in {"slice", "buffered"}
    /\ \E n \in FileLens : file = FileOfLen(n)
    /\ \E c \in Capacities : buffer = SectionBuffer_new(SecOffset, SecSize, c)
    /\ readers = IF backend = "buffered"
                 THEN <<SectionReader_new(buffer.file_offset, buffer.file_size)>>
                 ELSE <<>>
    /\ slices = IF backend = "slice" THEN <<EndianSlice_new(0, SecSize)>> ELSE <<>>
    /\ last = NoCall
    /\ TwinIdle
    /\ DecodeIdle

Next ==
    \/ \E i \in 1..Len(slices), n \in Lens : SliceSkip(i, n)
    \/ \E i \in 1..Len(slices), n \in Lens : SliceSplit(i, n)
    \/ \E i \in 1..Len(slices), n \in Lens : SliceTruncate(i, n)
    \/ \E i \in 1..Len(slices) : SliceEmpty(i)
    \/ \E i \in 1..Len(slices), n \in Lens : SliceRead(i, n)
    \/ \E i \in 1..Len(readers), n \in Lens : ReaderSkip(i, n)
    \/ \E i \in 1..Len(readers), n \in Lens : ReaderSplit(i, n)
    \/ \E i \in 1..Len(readers), n \in Lens : ReaderTruncate(i, n)
    \/ \E i \in 1..Len(readers) : ReaderEmpty(i)
    \/ \E i \in 1..Len(readers), n \in Lens : ReaderRead(i, n, NoFault)
    \/ \E i \in 1..Len(slices), b \in FindBytes : SliceFind(i, b)
    \/ \E i \in 1..Len(slices) : SliceToSlice(i)
    \/ \E i \in 1..Len(slices) : SliceToString(i)
    \/ \E i \in 1..Len(slices) : SliceToStringLossy(i)
    \/ \E i \in 1..Len(slices), debug \in BOOLEAN, place \in EmptyPlaces :
          SliceOffsetFrom(i, debug, place)
    \/ \E i \in 1..Len(readers) : ReaderOffsetFrom(i)
    \/ \E i \in 1..Len(readers) : ReaderToSlice(i)
    \/ \E i \in 1..Len(readers) : ReaderToString(i)
    \/ \E i \in 1..Len(readers) : ReaderToStringLossy(i)
    \/ \E i \in 1..Len(readers), b \in FindBytes : ReaderFind(i, b)

Spec == Init /\ [][Next]_vars

(***************************************************************************)
(* Properties of the cursors.                                              *)
(***************************************************************************)
\* The bytes of the file in [start, start + size), as far as the file has them.
FileRange(f, start, size) ==
    [j \in 1..Max(Min(start + size, Len(f)) - start, 0) |-> f[start + j]]

\* The bytes a SectionReader stands for.
ReaderBytes(r) == FileRange(file, r.range_start, r.range_size)

\* C1 (split conservation, both backends): split(n) with n <= L succeeds and
\* returns a cursor of length n, leaves the cursor with length L - n, and the
\* cursor's bytes before the call are the returned cursor's bytes followed by
\* the cursor's bytes after it.
C1_SplitConservation ==
    [][ last'.op = "split" =>
        /\ \A i \in 1..Len(slices), n \in Lens :
              (SliceSplit(i, n) /\ n <= slices[i].len) =>
                  /\ last'.ok
                  /\ Len(last'.ret) = 1
                  /\ last'.ret[1].len = n
                  /\ slices'[i].len = slices[i].len - n
                  /\ SliceBytes(slices[i])
                        = SliceBytes(last'.ret[1]) \o SliceBytes(slices'[i])
        /\ \A i \in 1..Len(readers), n \in Lens :
              (ReaderSplit(i, n) /\ n <= readers[i].range_size) =>
                  /\ last'.ok
                  /\ Len(last'.ret) = 1
                  /\ last'.ret[1].range_size = n
                  /\ readers'[i].range_size = readers[i].range_size - n
                  /\ ReaderBytes(readers[i])
                        = ReaderBytes(last'.ret[1]) \o ReaderBytes(readers'[i])
      ]_vars

\* C1 witness: a buffered split took two bytes off a three-byte cursor, and
\* the caller holds both halves.
C1_Witness ==
    /\ backend = "buffered"
    /\ last.op = "split" /\ last.ok
    /\ Len(readers) = 2
    /\ readers[2] = last.ret[1]
    /\ readers[2].range_size = 2
    /\ readers[1].range_size = SecSize - 2
    /\ Len(ReaderBytes(readers[2])) = 2

\* The remaining length of a cursor of either backend.
SliceLens == {slices[i].len : i \in 1..Len(slices)}
ReaderLens == {readers[i].range_size : i \in 1..Len(readers)}

\* C2 (cursor length invariant): every cursor's remaining length stays within
\* 0..(the original range's length), and each successful skip(n), split(n)
\* or n-byte read lowers the length of the cursor it is called on by exactly n.
C2_LengthInvariant ==
    /\ (SliceLens \cup ReaderLens) \subseteq 0..SecSize
    /\ [][ /\ (SliceLens' \cup ReaderLens') \subseteq 0..SecSize
           /\ (last'.ok /\ last'.op \in {"skip", "split", "read"}) =>
                 /\ \A i \in 1..Len(slices), n \in Lens :
                       (SliceSkip(i, n) \/ SliceSplit(i, n) \/ SliceRead(i, n))
                           => slices'[i].len = slices[i].len - n
                 /\ \A i \in 1..Len(readers), n \in Lens :
                       (ReaderSkip(i, n) \/ ReaderSplit(i, n) \/ ReaderRead(i, n, NoFault))
                           => readers'[i].range_size = readers[i].range_size - n
         ]_vars

\* C2 witness: a slice cursor that was skipped, split and read down to nothing
\* beside a cursor split from it.
C2_Witness ==
    /\ backend = "slice"
    /\ last.op = "read" /\ last.ok /\ Len(last.out) = 1
    /\ Len(slices) = 2
    /\ slices[1] = EndianSlice_new(SecSize, 0)
    /\ slices[2].len = 1

(***************************************************************************)
(* Two SectionBuffers over one file and one section, given the same        *)
(* requests: one with a one-byte window, one with a window larger than the *)
(* whole file (the model's stand-in for 1 MiB: no request reaches its      *)
(* capacity, so it never takes the bypass path).                           *)
(***************************************************************************)
LargeCapacity == SecOffset + SecSize + 2

\* Offsets a caller asks for: from before the section to past its end.
Offsets == 0..(SecOffset + SecSize + 1)

\* A file that goes on after the section, with a byte the section does not hold.
FileWithTrailer == FileOfLen(SecOffset + SecSize) \o <<FileByte(SecOffset + SecSize + 2)>>

TwinInit ==
    /\ file \in {FileOfLen(n) : n \in FileLens} \cup {FileWithTrailer}
    /\ twin = [a |-> SectionBuffer_new(SecOffset, SecSize, 1),
               b |-> SectionBuffer_new(SecOffset, SecSize, LargeCapacity)]
    /\ twinres = <<>>
    /\ CursorIdle
    /\ DecodeIdle

\* The same read_bytes_at(file_offset, buf) on both buffers.
TwinRequest(file_offset, len) ==
    LET ra == ReadBytesAt(twin.a, file, file_offset, len, NoFault)
        rb == ReadBytesAt(twin.b, file, file_offset, len, NoFault)
    IN /\ twin' = [a |-> ra.self, b |-> rb.self]
       /\ twinres' = <<[file_offset |-> file_offset, len |-> len,
                        a |-> [ok |-> ra.ok, err |-> ra.err, out |-> ra.out,
                               path |-> ra.path],
                        b |-> [ok |-> rb.ok, err |-> rb.err, out |-> rb.out,
                               path |-> rb.path]]>>
       /\ UNCHANGED <<file, backend, buffer, readers, slices, last, decodeVars>>

TwinNext == \E file_offset \in Offsets, len \in Lens : TwinRequest(file_offset, len)

SpecTwin == TwinInit /\ [][TwinNext]_vars

\* C3 (backend equivalence): after every request of the sequence the one-byte
\* window and the large window returned the same bytes and the same
\* success or failure.
C3_WindowsAgree ==
    \A k \in 1..Len(twinres) :
        /\ twinres[k].a.ok = twinres[k].b.ok
        /\ twinres[k].a.out = twinres[k].b.out

(***************************************************************************)
(* Numbers.  A value of n bytes is a tuple of n limbs in 0..255, least     *)
(* significant first; u64 and i64 (in two's complement) have eight.        *)
(***************************************************************************)
Reverse(a) == [j \in 1..Len(a) |-> a[Len(a) + 1 - j]]

\* u64::from(x) of a narrower unsigned value
ZeroExtend(a) == [j \in 1..8 |-> IF j <= Len(a) THEN a[j] ELSE 0]

\* `x as u64` of a signed value: the sign bit fills the upper limbs
SignExtend(a) ==
    [j \in 1..8 |-> IF j <= Len(a) THEN a[j]
                    ELSE IF a[Len(a)] >= 128 THEN 255 ELSE 0]

\* u64::wrapping_add
WrappingAdd(x, y) ==
    LET carry[j \in 0..8] ==
            IF j = 0 THEN 0 ELSE (x[j] + y[j] + carry[j - 1]) \div 256
    IN [j \in 1..8 |-> (x[j] + y[j] + carry[j - 1]) % 256]

\* a < b for two values of the same width, most significant limb first
RECURSIVE LimbsLess(_, _, _)
LimbsLess(a, b, j) ==
    IF j = 0 THEN FALSE
    ELSE IF a[j] # b[j] THEN a[j] < b[j]
    ELSE LimbsLess(a, b, j - 1)

Less(a, b) == LimbsLess(a, b, Len(a))

\* A length or offset of the model (below 2^16) as a u64.
U64(n) == [j \in 1..8 |-> IF j = 1 THEN n % 256 ELSE IF j = 2 THEN (n \div 256) % 256 ELSE 0]

\* Endianity::read_u16/u32/u64 (and the signed reads): the array's bytes as a
\* number, in the section's byte order.
Endian_read(e, a) == IF e = "Little" THEN a ELSE Reverse(a)

(***************************************************************************)
(* The Reader contract's provided methods (read/reader.rs), over an        *)
(* EndianSlice on the memory m with endianity e.  Each returns the result  *)
(* and the cursor afterwards.                                              *)
(***************************************************************************)
Ret(ok, err, tag, val, self) ==
    [ok |-> ok, err |-> err, tag |-> tag, val |-> val, self |-> self]

\* read_u8_array::<[u8; n]>
Reader_read_u8_array(m, s, n) ==
    LET r == Slice_read_slice(s, n)
    IN IF r.ok THEN Ret(TRUE, "none", "none", SliceBytesIn(m, r.val[1]), r.self)
       ELSE Ret(FALSE, r.err, "none", <<>>, r.self)

\* read_u8, read_u16, read_u32, read_u64 and read_i8 .. read_i64, by width:
\* the value keeps its width, the caller widens it.
Reader_read_int(m, e, s, n) ==
    LET r == Reader_read_u8_array(m, s, n)
    IN IF r.ok THEN Ret(TRUE, "none", "none", Endian_read(e, r.val), r.self) ELSE r

MAX_DWARF_32_UNIT_LENGTH == <<240, 255, 255, 255>>
DWARF_64_INITIAL_UNIT_LENGTH == <<255, 255, 255, 255>>

\* Mutant: the reserved range starts one value late.
IsDwarf32Length_inclusive(val) ==
    Less(val, MAX_DWARF_32_UNIT_LENGTH) \/ val = MAX_DWARF_32_UNIT_LENGTH

\* val < MAX_DWARF_32_UNIT_LENGTH
IsDwarf32Length(val) == Less(val, MAX_DWARF_32_UNIT_LENGTH)

\* Format::initial_length_size
Format_initial_length_size(format) == IF format = "Dwarf32" THEN 4 ELSE 12

\* Format::word_size
Format_word_size(format) == IF format = "Dwarf32" THEN 4 ELSE 8

\* read_initial_length
Reader_read_initial_length(m, e, s) ==
    LET r == Reader_read_int(m, e, s, 4)
    IN IF ~r.ok THEN r
       ELSE IF IsDwarf32Length(r.val)
       THEN Ret(TRUE, "none", "Dwarf32", ZeroExtend(r.val), r.self)
       ELSE IF r.val = DWARF_64_INITIAL_UNIT_LENGTH
       THEN LET q == Reader_read_int(m, e, r.self, 8)
            IN IF q.ok THEN Ret(TRUE, "none", "Dwarf64", q.val, q.self) ELSE q
       ELSE Ret(FALSE, "UnknownReservedLength", "none", <<>>, r.self)

\* read_word (read_length and read_offset call it)
Reader_read_word(m, e, s, format) ==
    IF format = "Dwarf32"
    THEN LET r == Reader_read_int(m, e, s, 4)
         IN IF r.ok THEN Ret(TRUE, "none", format, ZeroExtend(r.val), r.self) ELSE r
    ELSE LET r == Reader_read_int(m, e, s, 8)
         IN IF r.ok THEN Ret(TRUE, "none", format, r.val, r.self) ELSE r

\* read_address
Reader_read_address(m, e, s, address_size) ==
    IF address_size \in {1, 2, 4, 8}
    THEN LET r == Reader_read_int(m, e, s, address_size)
         IN IF r.ok THEN Ret(TRUE, "none", "none", ZeroExtend(r.val), r.self) ELSE r
    ELSE Ret(FALSE, "UnsupportedAddressSize", "none", <<address_size>>, s)

\* Mutant: an offset of a given size is read as an address is.
Reader_read_sized_offset_as_address(m, e, s, size) ==
    Reader_read_address(m, e, s, size)

\* read_sized_offset
Reader_read_sized_offset(m, e, s, size) ==
    IF size \in {1, 2, 4, 8}
    THEN LET r == Reader_read_int(m, e, s, size)
         IN IF r.ok THEN Ret(TRUE, "none", "none", ZeroExtend(r.val), r.self) ELSE r
    ELSE Ret(FALSE, "UnsupportedOffsetSize", "none", <<size>>, s)

(***************************************************************************)
(* The decoders' calls, as recorded in `res`.                              *)
(***************************************************************************)
Decoded(op, encoding, size, before, r) ==
    <<[op |-> op, encoding |-> encoding, size |-> size, before |-> before,
       ok |-> r.ok, err |-> r.err, tag |-> r.tag, val |-> r.val]>>

\* The whole of the memory as a cursor: EndianSlice::new(&buf, endian).
WholeOf(m) == EndianSlice_new(0, Len(m))

DecReadInitialLength ==
    /\ LET r == Reader_read_initial_length(mem, endian, rest)
       IN /\ rest' = r.self
          /\ res' = Decoded("read_initial_length", 0, 0, rest, r)
    /\ UNCHANGED <<mem, endian, bases, target, file, backend, buffer, readers,
                   slices, last, twinVars>>

DecReadWord(format) ==
    /\ LET r == Reader_read_word(mem, endian, rest, format)
       IN /\ rest' = r.self
          /\ res' = Decoded("read_word", 0, Format_word_size(format), rest, r)
    /\ UNCHANGED <<mem, endian, bases, target, file, backend, buffer, readers,
                   slices, last, twinVars>>

DecReadAddress(size) ==
    /\ LET r == Reader_read_address(mem, endian, rest, size)
       IN /\ rest' = r.self
          /\ res' = Decoded("read_address", 0, size, rest, r)
    /\ UNCHANGED <<mem, endian, bases, target, file, backend, buffer, readers,
                   slices, last, twinVars>>

DecReadSizedOffset(size) ==
    /\ LET r == Reader_read_sized_offset(mem, endian, rest, size)
       IN /\ rest' = r.self
          /\ res' = Decoded("read_sized_offset", 0, size, rest, r)
    /\ UNCHANGED <<mem, endian, bases, target, file, backend, buffer, readers,
                   slices, last, twinVars>>

(***************************************************************************)
(* Sections that start with an initial length, or fall short of one.       *)
(***************************************************************************)
\* The bytes the first four bytes are drawn from: the edges of the reserved
\* range 0xfffffff0..=0xfffffffe, and a plain byte.
HeadBytes == {18, 239, 240, 254, 255}

Heads == {<<a, b, c, d>> : a \in HeadBytes, b \in HeadBytes, c \in HeadBytes, d \in HeadBytes}
             \cup {<<18, 52, 86, 120>>}

Tails == { <<>>,
           <<18, 52, 86, 120>>,
           <<18, 52, 86, 120, 154, 188, 222, 255>>,
           <<1, 0, 0, 0, 0, 0, 0, 0>>,
           <<0, 0, 0, 0, 0, 0, 0, 1>> }

LengthInputs == {h \o t : h \in Heads, t \in Tails}
                    \cup {<<>>, <<255>>, <<255, 255>>, <<255, 255, 255>>}

LengthInit ==
    /\ mem \in LengthInputs
    /\ endian \in {"Little", "Big"}
    /\ target \in {32, 64}
    /\ rest = WholeOf(mem)
    /\ bases = <<>>
    /\ res = <<>>
    /\ file = <<>>
    /\ CursorIdle
    /\ TwinIdle

LengthNext ==
    \/ DecReadInitialLength
    \/ \E format \in {"Dwarf32", "Dwarf64"} : DecReadWord(format)

SpecLength == LengthInit /\ [][LengthNext]_vars

C5_UnsupportedOffset ==
    \A k \in 1..Len(res) :
        LET c == res[k]
            b == SliceBytesIn(mem, c.before)
            \* where the 64-bit value starts in b, when the call reads one
            at == IF c.op = "read_word" /\ c.size = 8 /\ Len(b) >= 8 THEN 0
                  ELSE IF c.op = "read_initial_length" /\ Len(b) >= 12
                          /\ SubSeq(b, 1, 4) = <<255, 255, 255, 255>> THEN 4
                  ELSE -1
            \* its upper four bytes
            upper == IF endian = "Little" THEN SubSeq(b, at + 5, at + 8)
                     ELSE SubSeq(b, at + 1, at + 4)
        IN (target = 32 /\ at >= 0 /\ upper # <<0, 0, 0, 0>>) =>
               (~c.ok /\ c.err = "UnsupportedOffset")

(***************************************************************************)
(* Pointer encodings (DwEhPe): the format in the low nibble, the           *)
(* application in bits 4..6, the indirect flag in bit 7, 0xff for omit.     *)
(***************************************************************************)
DW_EH_PE_absptr == 0
DW_EH_PE_uleb128 == 1
DW_EH_PE_udata2 == 2
DW_EH_PE_udata4 == 3
DW_EH_PE_udata8 == 4
DW_EH_PE_sleb128 == 9
DW_EH_PE_sdata2 == 10
DW_EH_PE_sdata4 == 11
DW_EH_PE_sdata8 == 12
DW_EH_PE_pcrel == 16
DW_EH_PE_textrel == 32
DW_EH_PE_datarel == 48
DW_EH_PE_funcrel == 64
DW_EH_PE_aligned == 80
DW_EH_PE_indirect == 128
DW_EH_PE_omit == 255

\* DwEhPe::format: the byte masked with 0x0f
DwEhPe_format(encoding) == encoding % 16

\* DwEhPe::application: the byte masked with 0x70
DwEhPe_application(encoding) == ((encoding \div 16) % 8) * 16

\* DwEhPe::is_indirect: the byte masked with 0x80
DwEhPe_is_indirect(encoding) == (encoding \div DW_EH_PE_indirect) % 2 = 1

\* DwEhPe::is_valid_encoding
DwEhPe_is_valid_encoding(encoding) ==
    \/ encoding = DW_EH_PE_omit
    \/ /\ DwEhPe_format(encoding) \in
              {DW_EH_PE_absptr, DW_EH_PE_uleb128, DW_EH_PE_udata2,
               DW_EH_PE_udata4, DW_EH_PE_udata8, DW_EH_PE_sleb128,
               DW_EH_PE_sdata2, DW_EH_PE_sdata4, DW_EH_PE_sdata8}
       /\ DwEhPe_application(encoding) \in
              {DW_EH_PE_absptr, DW_EH_PE_pcrel, DW_EH_PE_textrel,
               DW_EH_PE_datarel, DW_EH_PE_funcrel, DW_EH_PE_aligned}

(***************************************************************************)
(* LEB128.  The reader takes one byte at a time with read_u8 until a byte  *)
(* without the continuation bit; each byte gives seven bits, least         *)
(* significant group first.  The inputs here have at most nine groups, so  *)
(* the shift stays below 64.                                               *)
(***************************************************************************)
\* result | (low_bits << shift), for seven low bits that fall on zero bits of
\* the result
OrShifted(result, low_bits, shift) ==
    [i \in 1..8 |->
        result[i] + (IF i = (shift \div 8) + 1 THEN (low_bits * 2 ^ (shift % 8)) % 256
                     ELSE IF i = (shift \div 8) + 2 THEN (low_bits * 2 ^ (shift % 8)) \div 256
                     ELSE 0)]

\* result | (!0 << shift), for a result with no bit at or above the shift
OrOnesFrom(result, shift) ==
    [i \in 1..8 |->
        IF i < (shift \div 8) + 1 THEN result[i]
        ELSE IF i = (shift \div 8) + 1 THEN result[i] + 256 - 2 ^ (shift % 8)
        ELSE 255]

\* The loop of leb128::read::unsigned and leb128::read::signed
RECURSIVE Leb128_loop(_, _, _, _)
Leb128_loop(m, s, result, shift) ==
    IF s.len < 1
    THEN [ok |-> FALSE, err |-> "UnexpectedEof", result |-> result, shift |-> shift,
          byte |-> 0, self |-> s]
    ELSE IF m[s.ptr + 1] >= 128
    THEN Leb128_loop(m, SliceFrom(s, 1), OrShifted(result, m[s.ptr + 1] % 128, shift),
                     shift + 7)
    ELSE [ok |-> TRUE, err |-> "none",
          result |-> OrShifted(result, m[s.ptr + 1] % 128, shift),
          shift |-> shift + 7, byte |-> m[s.ptr + 1], self |-> SliceFrom(s, 1)]

\* leb128::read::unsigned, behind Reader::read_uleb128
Reader_read_uleb128(m, s) ==
    LET t == Leb128_loop(m, s, U64(0), 0)
    IN Ret(t.ok, t.err, "none", IF t.ok THEN t.result ELSE <<>>, t.self)

\* The end of leb128::read::signed: the last byte's bit 0x40 is the sign.
Leb128_signed(t) ==
    IF t.shift < 64 /\ (t.byte \div 64) % 2 = 1 THEN OrOnesFrom(t.result, t.shift)
    ELSE t.result

\* leb128::read::signed, behind Reader::read_sleb128
Reader_read_sleb128(m, s) ==
    LET t == Leb128_loop(m, s, U64(0), 0)
    IN Ret(t.ok, t.err, "none", IF t.ok THEN Leb128_signed(t) ELSE <<>>, t.self)

(***************************************************************************)
(* parse_encoded_pointer (read/mod.rs), over the section memory m: the     *)
(* cursor `section` spans the section, `input` stands at the payload.       *)
(***************************************************************************)
\* SectionBaseAddresses: each base is <<>> (None) or <<v>> (Some(v)).
SectionBaseAddresses(section, text, data, func) ==
    [section |-> section, text |-> text, data |-> data, func |-> func]

\* EndianSlice::offset_from
Slice_offset_from(s, base) == s.ptr - base.ptr

\* unreachable!()
Panic(s) == Ret(FALSE, "panic", "none", <<>>, s)

\* Mutant: the indirect bit is not looked at.
Pointer_new_direct(encoding, address, self) == Ret(TRUE, "none", "Direct", address, self)

\* Pointer::new, with the cursor after the read
Pointer_new(encoding, address, self) ==
    Ret(TRUE, "none", IF DwEhPe_is_indirect(encoding) THEN "Indirect" ELSE "Direct",
        address, self)

\* .map(u64::from)
MapU64From(r) == IF r.ok THEN [r EXCEPT !.val = ZeroExtend(r.val)] ELSE r

\* Mutant: the signed payloads are widened without their sign.
AsU64_unsigned(a) == ZeroExtend(a)

\* `a as u64` of a signed integer
AsU64(a) == SignExtend(a)

\* .map(|a| a as u64)
MapAsU64(r) == IF r.ok THEN [r EXCEPT !.val = AsU64(r.val)] ELSE r

parse_data(encoding, address_size, m, e, input) ==
    LET format == DwEhPe_format(encoding)
    IN CASE format = DW_EH_PE_absptr -> Reader_read_address(m, e, input, address_size)
         [] format = DW_EH_PE_uleb128 -> Reader_read_uleb128(m, input)
         [] format = DW_EH_PE_udata2 -> MapU64From(Reader_read_int(m, e, input, 2))
         [] format = DW_EH_PE_udata4 -> MapU64From(Reader_read_int(m, e, input, 4))
         [] format = DW_EH_PE_udata8 -> Reader_read_int(m, e, input, 8)
         [] format = DW_EH_PE_sleb128 -> MapAsU64(Reader_read_sleb128(m, input))
         [] format = DW_EH_PE_sdata2 -> MapAsU64(Reader_read_int(m, e, input, 2))
         [] format = DW_EH_PE_sdata4 -> MapAsU64(Reader_read_int(m, e, input, 4))
         [] format = DW_EH_PE_sdata8 -> MapAsU64(Reader_read_int(m, e, input, 8))
         [] OTHER -> Panic(input)

\* Mutant: the encoding is not checked.
EncodingChecked_never(encoding) == TRUE

\* encoding.is_valid_encoding(), as parse_encoded_pointer asks it first
EncodingChecked(encoding) == DwEhPe_is_valid_encoding(encoding)

\* Mutant: omit is not told apart.
IsOmit_never(encoding) == FALSE

\* encoding == constants::DW_EH_PE_omit
IsOmit(encoding) == encoding = DW_EH_PE_omit

\* Mutant: the offset is taken after the payload is read.
PcrelOffset_after_read(before, after, section) == Slice_offset_from(after, section)

\* input.offset_from(section), taken before parse_data moves the input
PcrelOffset(before, after, section) == Slice_offset_from(before, section)

\* The DW_EH_PE_pcrel arm
PcRelative(section_base, encoding, address_size, section, m, e, input) ==
    IF section_base # <<>>
    THEN LET r == parse_data(encoding, address_size, m, e, input)
             offset_from_section == PcrelOffset(input, r.self, section)
         IN IF r.ok
            THEN Pointer_new(encoding,
                             WrappingAdd(WrappingAdd(section_base[1],
                                                     U64(offset_from_section)),
                                         r.val),
                             r.self)
            ELSE r
    ELSE Ret(FALSE, "PcRelativePointerButSectionBaseIsUndefined", "none", <<>>, input)

\* Mutant: the payload is read before the base is looked at.
Relative_reads_first(base, err, encoding, address_size, m, e, input) ==
    LET r == parse_data(encoding, address_size, m, e, input)
    IN IF ~r.ok THEN r
       ELSE IF base = <<>> THEN Ret(FALSE, err, "none", <<>>, r.self)
       ELSE Pointer_new(encoding, WrappingAdd(base[1], r.val), r.self)

\* The DW_EH_PE_textrel, DW_EH_PE_datarel and DW_EH_PE_funcrel arms, which
\* differ in the base and the error only.
Relative(base, err, encoding, address_size, m, e, input) ==
    IF base # <<>>
    THEN LET r == parse_data(encoding, address_size, m, e, input)
         IN IF r.ok THEN Pointer_new(encoding, WrappingAdd(base[1], r.val), r.self)
            ELSE r
    ELSE Ret(FALSE, err, "none", <<>>, input)

\* Mutant: aligned is resolved as absptr is, the padding left out.
Aligned_as_absptr(encoding, address_size, m, e, input) ==
    MapU64From(parse_data(encoding, address_size, m, e, input))

\* The DW_EH_PE_aligned arm
Aligned(encoding, address_size, m, e, input) ==
    Ret(FALSE, "UnsupportedPointerEncoding", "none", <<>>, input)

parse_encoded_pointer(encoding, bs, address_size, section, m, e, input) ==
    IF ~EncodingChecked(encoding)
    THEN Ret(FALSE, "UnknownPointerEncoding", "none", <<>>, input)
    ELSE IF IsOmit(encoding)
    THEN Ret(TRUE, "none", "Direct", U64(0), input)
    ELSE LET application == DwEhPe_application(encoding)
         IN CASE application = DW_EH_PE_absptr ->
                   LET r == parse_data(encoding, address_size, m, e, input)
                   IN IF r.ok THEN Pointer_new(encoding, r.val, r.self) ELSE r
              [] application = DW_EH_PE_pcrel ->
                   PcRelative(bs.section, encoding, address_size, section, m, e, input)
              [] application = DW_EH_PE_textrel ->
                   Relative(bs.text, "TextRelativePointerButTextBaseIsUndefined",
                            encoding, address_size, m, e, input)
              [] application = DW_EH_PE_datarel ->
                   Relative(bs.data, "DataRelativePointerButDataBaseIsUndefined",
                            encoding, address_size, m, e, input)
              [] application = DW_EH_PE_funcrel ->
                   Relative(bs.func, "FuncRelativePointerInBadContext",
                            encoding, address_size, m, e, input)
              [] application = DW_EH_PE_aligned ->
                   Aligned(encoding, address_size, m, e, input)
              [] OTHER -> Panic(input)

(***************************************************************************)
(* A frame-information parse: the caller resolves encoded pointers at the  *)
(* input cursor and moves the function base from one frame description     *)
(* entry to the next.                                                      *)
(***************************************************************************)
DecParseEncodedPointer(encoding, address_size) ==
    /\ res = <<>>
    /\ LET r == parse_encoded_pointer(encoding, bases, address_size, WholeOf(mem),
                                      mem, endian, rest)
       IN /\ rest' = r.self
          /\ res' = Decoded("parse_encoded_pointer", encoding, address_size, rest, r)
    /\ UNCHANGED <<mem, endian, bases, target, file, backend, buffer, readers,
                   slices, last, twinVars>>

\* The caller takes the result and goes on from where the cursor stands.
DecContinue ==
    /\ res # <<>>
    /\ res[1].op = "parse_encoded_pointer"
    /\ res' = <<>>
    /\ UNCHANGED <<mem, endian, rest, bases, target, file, backend, buffer,
                   readers, slices, last, twinVars>>

\* The function bases of the entries, in the order the caller meets them.
FuncBases == << <<0, 16, 0, 0, 0, 0, 0, 0>>,
                <<255, 255, 255, 255, 255, 255, 255, 255>> >>

\* The caller sets bases.func for the next entry, and clears it after the last.
DecSetFuncBase ==
    /\ bases' = [bases EXCEPT !.func =
                    IF bases.func = <<>> THEN <<FuncBases[1]>>
                    ELSE IF bases.func = <<FuncBases[1]>> THEN <<FuncBases[2]>>
                    ELSE <<>>]
    /\ res' = <<>>
    /\ UNCHANGED <<mem, endian, rest, target, file, backend, buffer, readers,
                   slices, last, twinVars>>

Zeros(n) == [j \in 1..n |-> 0]

\* Sections and where in them the input cursor starts.
PointerInputs ==
    { [mem |-> <<13, 240, 13, 240>>, start |-> 0],
      [mem |-> <<239, 93, 52, 18>>, start |-> 0],
      [mem |-> <<255, 255, 255, 255, 255, 255, 255, 255>>, start |-> 0],
      [mem |-> Zeros(16) \o <<1>>, start |-> 16],
      [mem |-> <<>>, start |-> 0] }

TopBase == <<<<255, 255, 255, 255, 255, 255, 255, 255>>>>

BaseChoices ==
    { SectionBaseAddresses(<<>>, <<>>, <<>>, <<>>),
      SectionBaseAddresses(<<<<0, 1, 0, 0, 0, 0, 0, 0>>>>, <<>>, <<>>, <<>>),
      SectionBaseAddresses(<<<<0, 1, 0, 0, 0, 0, 0, 0>>>>,
                           <<<<17, 17, 17, 17, 0, 0, 0, 0>>>>,
                           <<<<16, 0, 0, 0, 0, 0, 0, 0>>>>, <<>>),
      SectionBaseAddresses(TopBase, TopBase, TopBase, <<>>) }

\* The address sizes asked for: two that read_address supports and one it
\* does not.
AddressSizes == {4, 8, 3}

Encodings == 0..255

PointerInit ==
    /\ \E in \in PointerInputs :
           /\ mem = in.mem
           /\ rest = EndianSlice_new(in.start, Len(in.mem) - in.start)
    /\ endian \in {"Little", "Big"}
    /\ bases \in BaseChoices
    /\ target = 64
    /\ res = <<>>
    /\ file = <<>>
    /\ CursorIdle
    /\ TwinIdle

PointerNext ==
    \/ \E encoding \in Encodings, address_size \in AddressSizes :
           DecParseEncodedPointer(encoding, address_size)
    \/ DecContinue
    \/ DecSetFuncBase

SpecPointer == PointerInit /\ [][PointerNext]_vars

(***************************************************************************)
(* What the claims about parse_encoded_pointer speak of, said without the  *)
(* resolver: the call on record, the payload at its cursor, sums modulo    *)
(* 2^64.                                                                   *)
(***************************************************************************)
\* The calls of parse_encoded_pointer on record.
PointerCallsMade == {k \in 1..Len(res) : res[k].op = "parse_encoded_pointer"}

\* The bytes at the call's input cursor.
InputOf(c) == SubSeq(mem, c.before.ptr + 1, c.before.ptr + c.before.len)

\* The cursor stands n bytes after where the call found it.
Consumed(c, n) == rest.ptr = c.before.ptr + n /\ rest.len = c.before.len - n

\* (x + y) mod 2^64, limb by limb with the carry handed on.
RECURSIVE SumFrom(_, _, _, _)
SumFrom(x, y, j, carry) ==
    IF j > 8 THEN <<>>
    ELSE <<(x[j] + y[j] + carry) % 256>>
             \o SumFrom(x, y, j + 1, (x[j] + y[j] + carry) \div 256)

ModSum(x, y) == SumFrom(x, y, 1, 0)

\* An integer v with |v| < 2^31 as 64 bits in two's complement.
IntLimbs(v) ==
    [j \in 1..8 |-> IF j <= 4 THEN (v \div (256 ^ (j - 1))) % 256
                    ELSE IF v < 0 THEN 255 ELSE 0]

\* The first n bytes of b as a number in byte order e, widened to 64 bits
\* with zeros, or with the sign bit when signed.
FixedPayload(b, n, e, signed) ==
    LET a == IF e = "Little" THEN SubSeq(b, 1, n) ELSE [j \in 1..n |-> b[n + 1 - j]]
    IN [j \in 1..8 |-> IF j <= n THEN a[j]
                       ELSE IF signed /\ a[n] >= 128 THEN 255 ELSE 0]

\* The length of the LEB128 number b starts with: up to its first byte below
\* 0x80; 0 when b has none.
LebLen(b) ==
    IF \E k \in 1..Len(b) : b[k] < 128
    THEN CHOOSE k \in 1..Len(b) : b[k] < 128 /\ \A j \in 1..(k - 1) : b[j] >= 128
    ELSE 0

\* The value of a LEB128 number of at most four bytes.
RECURSIVE LebSum(_, _)
LebSum(b, k) == IF k = 0 THEN 0 ELSE LebSum(b, k - 1) + (b[k] % 128) * 128 ^ (k - 1)

LebPayload(b, signed) ==
    IF signed /\ b[LebLen(b)] % 128 >= 64
    THEN IntLimbs(LebSum(b, LebLen(b)) - 128 ^ LebLen(b))
    ELSE IntLimbs(LebSum(b, LebLen(b)))

\* The payload the format nibble f names at the head of b: how many bytes it
\* takes (-1 when b has no such payload) and its value as 64 bits.
PayloadLen(f, size, b) ==
    LET n == CASE f = 0 -> size
               [] f \in {2, 10} -> 2
               [] f \in {3, 11} -> 4
               [] f \in {4, 12} -> 8
               [] f \in {1, 9} -> IF LebLen(b) = 0 THEN Len(b) + 1 ELSE LebLen(b)
    IN IF n \in {1, 2, 4, 8} \/ f \in {1, 9} THEN (IF n <= Len(b) THEN n ELSE -1) ELSE -1

PayloadVal(f, size, b, e) ==
    IF f \in {1, 9} THEN LebPayload(b, f = 9)
    ELSE FixedPayload(b, PayloadLen(f, size, b), e, f \in {10, 11, 12})

\* The nine payload formats and the application of an encoding byte.
FormatNibbles == {0, 1, 2, 3, 4, 9, 10, 11, 12}
FormatOf(enc) == enc % 16
ApplicationOf(enc) == (enc % 128) - (enc % 16)

\* C6 (pcrel): for a valid encoding whose application is pcrel, with the
\* section base b set, the address returned is (b + o + p) mod 2^64, where o
\* is the offset of the input cursor from the section's start before the
\* payload is read and p is the payload; the payload's bytes are consumed.
C6_PcRelative ==
    \A k \in PointerCallsMade :
        LET c == res[k]
            f == FormatOf(c.encoding)
            n == PayloadLen(f, c.size, InputOf(c))
        IN (f \in FormatNibbles /\ ApplicationOf(c.encoding) = 16
                /\ bases.section # <<>> /\ n >= 0) =>
               /\ c.ok
               /\ c.val = ModSum(ModSum(bases.section[1], IntLimbs(c.before.ptr)),
                                 PayloadVal(f, c.size, InputOf(c), endian))
               /\ Consumed(c, n)

\* C6 witness: pcrel|uleb128 at 0x10 bytes into a section based at 0x100,
\* payload 0x01, resolved to Direct(0x111).
C6_Witness ==
    /\ Len(res) = 1 /\ res[1].op = "parse_encoded_pointer"
    /\ res[1].encoding = 17
    /\ bases.section = <<<<0, 1, 0, 0, 0, 0, 0, 0>>>>
    /\ res[1].before = EndianSlice_new(16, 1)
    /\ mem[17] = 1
    /\ res[1].ok /\ res[1].tag = "Direct"
    /\ res[1].val = <<17, 1, 0, 0, 0, 0, 0, 0>>
    /\ rest = EndianSlice_new(17, 0)

\* C7 (textrel, datarel, funcrel): with the base B set, the address returned
\* is (B + p) mod 2^64, the signed payloads sign-extended and the unsigned
\* ones zero-extended to 64 bits; funcrel takes the function base as it is
\* when the call is made.
C7_BaseRelative ==
    \A k \in PointerCallsMade :
        LET c == res[k]
            f == FormatOf(c.encoding)
            a == ApplicationOf(c.encoding)
            n == PayloadLen(f, c.size, InputOf(c))
            B == CASE a = 32 -> bases.text
                   [] a = 48 -> bases.data
                   [] a = 64 -> bases.func
                   [] OTHER -> <<>>
        IN (f \in FormatNibbles /\ a \in {32, 48, 64} /\ B # <<>> /\ n >= 0) =>
               /\ c.ok
               /\ c.val = ModSum(B[1], PayloadVal(f, c.size, InputOf(c), endian))
               /\ Consumed(c, n)

\* C7 witness: funcrel|sleb128 over ef 5d (-0x1111) once the caller has moved
\* the function base on to 0xffffffffffffffff: 0xffffffffffffeeee.
C7_Witness ==
    /\ Len(res) = 1 /\ res[1].op = "parse_encoded_pointer"
    /\ res[1].encoding = 73
    /\ bases.func = <<FuncBases[2]>>
    /\ res[1].before = EndianSlice_new(0, 4)
    /\ SubSeq(mem, 1, 2) = <<239, 93>>
    /\ res[1].ok
    /\ res[1].val = <<238, 238, 255, 255, 255, 255, 255, 255>>
    /\ rest = EndianSlice_new(2, 2)

\* The error of a missing base, by application.
MissingBaseError(a) ==
    CASE a = 16 -> "PcRelativePointerButSectionBaseIsUndefined"
      [] a = 32 -> "TextRelativePointerButTextBaseIsUndefined"
      [] a = 48 -> "DataRelativePointerButDataBaseIsUndefined"
      [] a = 64 -> "FuncRelativePointerInBadContext"

BaseOf(a) ==
    CASE a = 16 -> bases.section
      [] a = 32 -> bases.text
      [] a = 48 -> bases.data
      [] a = 64 -> bases.func

\* C8 (missing base), as amended: for a valid encoding whose application is
\* pcrel, textrel, datarel or funcrel and whose base is unset, the call fails
\* with the error of that base and leaves the input cursor where it was.
C8_MissingBase ==
    \A k \in PointerCallsMade :
        LET c == res[k]
            a == ApplicationOf(c.encoding)
        IN (FormatOf(c.encoding) \in FormatNibbles /\ a \in {16, 32, 48, 64}
                /\ BaseOf(a) = <<>>) =>
               (~c.ok /\ c.err = MissingBaseError(a) /\ Consumed(c, 0))

\* C8 witness: pcrel|uleb128 with no section base, over an input that has a
\* payload to read.
C8_Witness ==
    /\ Len(res) = 1 /\ res[1].op = "parse_encoded_pointer"
    /\ res[1].encoding = 17
    /\ bases.section = <<>>
    /\ res[1].before = EndianSlice_new(16, 1)
    /\ ~res[1].ok
    /\ res[1].err = "PcRelativePointerButSectionBaseIsUndefined"
    /\ rest = res[1].before

\* C8 (missing base), as first stated: whenever the application is pcrel,
\* textrel, datarel or funcrel and the base is unset, whatever the format
\* nibble, the call fails with the error of that base and leaves the input
\* cursor where it was.
C8_MissingBaseAnyFormat ==
    \A k \in PointerCallsMade :
        LET c == res[k]
            a == ApplicationOf(c.encoding)
        IN (a \in {16, 32, 48, 64} /\ BaseOf(a) = <<>>) =>
               (~c.ok /\ c.err = MissingBaseError(a) /\ Consumed(c, 0))

\* C9 (omit): the encoding 0xff gives Direct(0) and leaves the input cursor
\* where it was, whatever the bases, the address size and the input.
C9_Omit ==
    \A k \in PointerCallsMade :
        res[k].encoding = 255 =>
            /\ res[k].ok /\ res[k].tag = "Direct"
            /\ res[k].val = <<0, 0, 0, 0, 0, 0, 0, 0>>
            /\ Consumed(res[k], 0)

\* C9 witness: omit over an empty input, with no base set and an address size
\* read_address does not support.
C9_Witness ==
    /\ Len(res) = 1 /\ res[1].op = "parse_encoded_pointer"
    /\ res[1].encoding = 255 /\ res[1].size = 3
    /\ mem = <<>>
    /\ bases = SectionBaseAddresses(<<>>, <<>>, <<>>, <<>>)
    /\ res[1].ok /\ res[1].tag = "Direct"
    /\ rest = EndianSlice_new(0, 0)

\* C10 (invalid encodings): an encoding other than 0xff whose format nibble
\* is none of the nine formats, or whose application is none of the six,
\* fails with UnknownPointerEncoding with the input cursor where it was; and
\* no call, whatever the encoding, ends in unreachable!().
C10_UnknownEncoding ==
    \A k \in PointerCallsMade :
        /\ (res[k].encoding # 255
              /\ (FormatOf(res[k].encoding) \notin FormatNibbles
                    \/ ApplicationOf(res[k].encoding) \notin {0, 16, 32, 48, 64, 80})) =>
               (~res[k].ok /\ res[k].err = "UnknownPointerEncoding"
                   /\ Consumed(res[k], 0))
        /\ res[k].err # "panic"

\* C10 witness: the encoding 0x0d, one past sdata8, refused over an input
\* that has bytes to read.
C10_Witness ==
    /\ Len(res) = 1 /\ res[1].op = "parse_encoded_pointer"
    /\ res[1].encoding = 13
    /\ res[1].before.len > 0
    /\ ~res[1].ok /\ res[1].err = "UnknownPointerEncoding"
    /\ rest = res[1].before

\* C11 (aligned), as amended: every valid encoding whose application is
\* aligned (0x50), whichever of the nine formats its nibble names and with
\* the indirect bit or without, fails with UnsupportedPointerEncoding.
C11_Aligned ==
    \A k \in PointerCallsMade :
        (FormatOf(res[k].encoding) \in FormatNibbles
            /\ ApplicationOf(res[k].encoding) = 80) =>
            (~res[k].ok /\ res[k].err = "UnsupportedPointerEncoding")

\* C11 witness: aligned|sdata4 (0x5b) over an input that holds four bytes.
C11_Witness ==
    /\ Len(res) = 1 /\ res[1].op = "parse_encoded_pointer"
    /\ res[1].encoding = 91
    /\ res[1].before.len >= 4
    /\ ~res[1].ok /\ res[1].err = "UnsupportedPointerEncoding"

\* C11 (aligned), as first stated: every encoding byte whose application
\* bits are 0x50 fails with UnsupportedPointerEncoding, whatever its format
\* nibble.
C11_AlignedAnyFormat ==
    \A k \in PointerCallsMade :
        ApplicationOf(res[k].encoding) = 80 =>
            (~res[k].ok /\ res[k].err = "UnsupportedPointerEncoding")

\* The same call as the one on record, with the encoding byte replaced.
SameCallWith(c, encoding) ==
    parse_encoded_pointer(encoding, bases, c.size, WholeOf(mem), mem, endian, c.before)

\* C12 (indirect bit): when a call with an encoding e without bit 0x80
\* succeeds with Direct(v), the same call with e|0x80 succeeds with
\* Indirect(v) and leaves the cursor at the same place; and a call with the
\* bit set that succeeds gives Indirect(v) where the call without the bit
\* gives Direct(v).  The value is returned, never read through.
C12_Indirect ==
    \A k \in PointerCallsMade :
        LET c == res[k]
        IN /\ (c.encoding < 128 /\ c.ok) =>
                 /\ c.tag = "Direct"
                 /\ SameCallWith(c, c.encoding + 128) =
                        Ret(TRUE, "none", "Indirect", c.val, rest)
           /\ (c.encoding >= 128 /\ c.encoding # 255 /\ c.ok) =>
                 /\ c.tag = "Indirect"
                 /\ SameCallWith(c, c.encoding - 128) =
                        Ret(TRUE, "none", "Direct", c.val, rest)

\* C12 witness: the indirect bit alone (0x80) with address size 4 over
\* 0d f0 0d f0, little-endian: Indirect(0xf00df00d), four bytes consumed.
C12_Witness ==
    /\ Len(res) = 1 /\ res[1].op = "parse_encoded_pointer"
    /\ res[1].encoding = 128 /\ res[1].size = 4
    /\ mem = <<13, 240, 13, 240>> /\ endian = "Little"
    /\ res[1].before = WholeOf(mem)
    /\ res[1].ok /\ res[1].tag = "Indirect"
    /\ res[1].val = <<13, 240, 13, 240, 0, 0, 0, 0>>
    /\ rest = EndianSlice_new(4, 0)

\* The first n bytes of b, or all of b when it has fewer.
FirstN(b, n) == SubSeq(b, 1, Min(n, Len(b)))

\* C13 (truncate): truncate(n) on a cursor of remaining length L, on either
\* backend: with n <= L it succeeds, the length becomes n, the start stays
\* and the remaining bytes are the first n of those before; with n > L it
\* fails with UnexpectedEof and the cursor is as it was.
C13_Truncate ==
    [][ last'.op = "truncate" =>
        /\ \A i \in 1..Len(slices), n \in Lens :
              SliceTruncate(i, n) =>
                  IF n <= slices[i].len
                  THEN /\ last'.ok
                       /\ slices'[i].len = n
                       /\ slices'[i].ptr = slices[i].ptr
                       /\ SliceBytes(slices'[i]) = FirstN(SliceBytes(slices[i]), n)
                  ELSE /\ ~last'.ok /\ last'.err = "UnexpectedEof"
                       /\ slices'[i] = slices[i]
        /\ \A i \in 1..Len(readers), n \in Lens :
              ReaderTruncate(i, n) =>
                  IF n <= readers[i].range_size
                  THEN /\ last'.ok
                       /\ readers'[i].range_size = n
                       /\ readers'[i].range_start = readers[i].range_start
                       /\ ReaderBytes(readers'[i]) = FirstN(ReaderBytes(readers[i]), n)
                  ELSE /\ ~last'.ok /\ last'.err = "UnexpectedEof"
                       /\ readers'[i] = readers[i]
      ]_vars

\* C13 witness: a buffered cursor over the whole section cut down to its
\* first byte, where it started.
C13_Witness ==
    /\ backend = "buffered"
    /\ last.op = "truncate" /\ last.ok
    /\ Len(readers) = 1
    /\ readers[1] = SectionReader_new(SecOffset, 1)
    /\ ReaderBytes(readers[1]) = <<FileByte(SecOffset)>>

\* The remaining bytes of the cursor the last query was made on.
QueriedBytes ==
    IF backend = "slice" THEN SliceBytes(slices[last.cursor])
    ELSE ReaderBytes(readers[last.cursor])

\* The file holds every byte of the queried cursor's range (always so for a
\* slice, which views memory).
QueriedInFile ==
    backend = "buffered" =>
        readers[last.cursor].range_start + readers[last.cursor].range_size <= Len(file)

\* What the claim gives for find(byte) over bytes: the smallest place holding
\* the byte, or UnexpectedEof when no place holds it.
FindAnswers(bytes, byte, c) ==
    IF \E j \in 1..Len(bytes) : bytes[j] = byte
    THEN /\ c.ok
         /\ Len(c.out) = 1
         /\ c.out[1] \in 0..(Len(bytes) - 1)
         /\ bytes[c.out[1] + 1] = byte
         /\ \A k \in 1..c.out[1] : bytes[k] # byte
    ELSE ~c.ok /\ c.err = "UnexpectedEof"

\* C14 (find): for a cursor whose remaining bytes hold the byte b, find(b)
\* returns the smallest index holding b, counted from the cursor's position;
\* it fails with UnexpectedEof exactly when b is not among the remaining
\* bytes.  On both backends, across the buffered backend's chunks, for every
\* cursor whose remaining bytes the file holds.
C14_Find ==
    (last.op = "find" /\ QueriedInFile) => FindAnswers(QueriedBytes, last.arg, last)

\* C14 read for files that hold the whole section.
C14_FindWholeFile ==
    (last.op = "find" /\ Len(file) >= SecOffset + SecSize)
        => FindAnswers(QueriedBytes, last.arg, last)

\* C14 witness: the buffered find of the section's last byte, which the
\* second chunk holds.
C14_Witness ==
    /\ backend = "buffered"
    /\ last.op = "find" /\ last.ok
    /\ readers[last.cursor] = SectionReader_new(SecOffset, SecSize)
    /\ last.arg = FileByte(SecOffset + SecSize - 1)
    /\ last.out = <<SecSize - 1>>
    /\ SecSize - 1 >= FindChunk

(***************************************************************************)
(* Reads of a given size: read_address and read_sized_offset.              *)
(***************************************************************************)
\* The sizes a caller passes (a u8): the four supported ones, their
\* neighbours and the ends of the type.
Sizes == {0, 1, 2, 3, 4, 5, 7, 8, 9, 16, 255}

\* The bytes such reads are made over, and every prefix of them: bytes with
\* the top bit set and clear, no two alike.
SizedBytes == { <<18, 52, 86, 120, 154, 188, 222, 241, 3>>,
                <<255, 128, 0, 127, 1, 2, 254, 129, 200>> }

SizedInputs == {SubSeq(b, 1, n) : b \in SizedBytes, n \in 0..9}

SizedInit ==
    /\ mem \in SizedInputs
    /\ endian \in {"Little", "Big"}
    /\ target = 64
    /\ rest = WholeOf(mem)
    /\ bases = <<>>
    /\ res = <<>>
    /\ file = <<>>
    /\ CursorIdle
    /\ TwinIdle

SizedNext ==
    \/ \E size \in Sizes : DecReadAddress(size)
    \/ \E size \in Sizes : DecReadSizedOffset(size)

SpecSized == SizedInit /\ [][SizedNext]_vars

\* The 64-bit value of the first size bytes of b in the endianness e, least
\* significant byte first: little-endian bytes are in that order already,
\* big-endian ones are in the opposite order; the rest is zero.
SizedValue(e, b, size) ==
    [k \in 1..8 |-> IF k > size THEN 0
                    ELSE IF e = "Little" THEN b[k] ELSE b[size + 1 - k]]

\* C15 (reads of a given size): read_address(size) and
\* read_sized_offset(size), with size in {1, 2, 4, 8} and that many bytes
\* left, consume exactly size bytes and return them read in the reader's
\* endianness and zero-extended to 64 bits; with any other size they fail
\* with UnsupportedAddressSize(size), respectively UnsupportedOffsetSize(size).
C15_SizedReads ==
    \A j \in 1..Len(res) :
        LET c == res[j]
        IN c.op \in {"read_address", "read_sized_offset"} =>
              IF c.size \in {1, 2, 4, 8}
              THEN c.before.len >= c.size =>
                      /\ c.ok
                      /\ rest.ptr = c.before.ptr + c.size
                      /\ rest.len = c.before.len - c.size
                      /\ c.val = SizedValue(endian, SliceBytesIn(mem, c.before), c.size)
              ELSE /\ ~c.ok
                   /\ c.err = (IF c.op = "read_address" THEN "UnsupportedAddressSize"
                               ELSE "UnsupportedOffsetSize")
                   /\ c.val = <<c.size>>

\* C15 witness: a big-endian read_sized_offset(2) of 0x80 0x00, and so 0x8000
\* with nothing above it, from the second byte of the input on.
C15_Witness ==
    /\ res # <<>> /\ res[1].op = "read_sized_offset" /\ res[1].ok
    /\ endian = "Big" /\ res[1].size = 2
    /\ res[1].before.ptr = 1
    /\ res[1].val = <<0, 128, 0, 0, 0, 0, 0, 0>>

\* The calls that look at a cursor's bytes and leave the cursor where it is.
Queries == {"to_slice", "to_string", "to_string_lossy", "find"}

\* What a query that succeeded, or found the bytes wanting, says of the bytes
\* it was made on.
QueryAnswers(bytes, c) ==
    /\ (c.op = "to_slice" /\ c.ok) => c.out = bytes
    /\ (c.op = "to_string" /\ c.ok) => from_utf8(bytes).ok /\ c.out = from_utf8(bytes).chars
    /\ (c.op = "to_string" /\ c.err = "BadUtf8") => ~from_utf8(bytes).ok
    /\ (c.op = "to_string_lossy" /\ c.ok) => c.out = from_utf8_lossy(bytes)
    /\ (c.op = "find" /\ c.ok) =>
            /\ c.out[1] < Len(bytes)
            /\ bytes[c.out[1] + 1] = c.arg
    /\ (c.op = "find" /\ c.err = "UnexpectedEof") =>
            \A j \in 1..Len(bytes) : bytes[j] # c.arg

\* C16 (queries leave the cursors alone): to_slice, to_string,
\* to_string_lossy and find, on either backend, leave the start and the
\* remaining length of the cursor they are called on, and of every other
\* cursor, as they were; what they give back is taken from exactly the
\* cursor's remaining bytes, and to_slice gives all of them in order.
C16_QueriesKeepCursors ==
    [][ last'.op \in Queries =>
            /\ readers' = readers
            /\ slices' = slices
            /\ QueryAnswers(QueriedBytes', last')
      ]_vars

\* C16, the part about the cursors alone: a query, whether it succeeds or
\* fails, leaves every cursor's start and remaining length as they were.
C16_CursorsKept ==
    [][ last'.op \in Queries => readers' = readers /\ slices' = slices ]_vars

\* C16 witness: to_slice on a buffered cursor that a read moved one byte in,
\* giving the bytes after the first while a second cursor is alive.
C16_Witness ==
    /\ backend = "buffered"
    /\ last.op = "to_slice" /\ last.ok
    /\ Len(readers) = 2
    /\ readers[last.cursor] = SectionReader_new(SecOffset + 1, SecSize - 1)
    /\ last.out = [j \in 1..(SecSize - 1) |-> FileByte(SecOffset + j)]

(***************************************************************************)
(* EndianVec (write/endian_vec.rs): the vec is `mem`, the calls made on it *)
(* so far are `res`.  A WriterOffset is kept as the part that fits a       *)
(* 32-bit usize (lo) and the part above it (hi).                           *)
(***************************************************************************)
\* how many calls a session makes on one EndianVec
MaxCalls == 3

\* EndianVec::new
EndianVec_new == <<>>

\* slice(&self)
EndianVec_slice(vec) == vec

\* len(&self), as a WriterOffset
EndianVec_len(vec) == [hi |-> 0, lo |-> Len(vec)]

\* Mutant: write puts the bytes in front of those already there.
EndianVec_write_in_front(vec, bytes) == [ok |-> TRUE, err |-> "none", vec |-> bytes \o vec]

\* write(&mut self, bytes): self.vec.extend(bytes)
EndianVec_write(vec, bytes) == [ok |-> TRUE, err |-> "none", vec |-> vec \o bytes]

\* offset as usize: a 32-bit usize keeps the low part only
AsUsize(bits, offset) == IF bits = 32 THEN [hi |-> 0, lo |-> offset.lo] ELSE offset

\* Mutant: the offset is taken to fit a usize whatever its value.
FitsUsize_unchecked(bits, offset) == TRUE

\* offset_usize as WriterOffset == offset
FitsUsize(bits, offset) == AsUsize(bits, offset) = offset

\* write_at(&mut self, offset, bytes) on a target whose usize has `bits` bits
EndianVec_write_at(bits, vec, offset, bytes) ==
    LET offset_usize == AsUsize(bits, offset)
    IN IF ~FitsUsize(bits, offset)
       THEN [ok |-> FALSE, err |-> "OffsetOutOfBounds", vec |-> vec]
       ELSE IF offset_usize.hi # 0 \/ offset_usize.lo > Len(vec)
       THEN [ok |-> FALSE, err |-> "OffsetOutOfBounds", vec |-> vec]
       ELSE IF Len(bytes) > Len(vec) - offset_usize.lo
       THEN [ok |-> FALSE, err |-> "LengthOutOfBounds", vec |-> vec]
       ELSE [ok |-> TRUE, err |-> "none",
             vec |-> [k \in 1..Len(vec) |->
                        IF k > offset_usize.lo /\ k <= offset_usize.lo + Len(bytes)
                        THEN bytes[k - offset_usize.lo]
                        ELSE vec[k]]]

\* A call on the vec, as recorded in `res`.
Written(op, offset, bytes, before, r) ==
    [op |-> op, offset |-> offset, bytes |-> bytes, before |-> before,
     ok |-> r.ok, err |-> r.err]

VecWrite(bytes) ==
    /\ Len(res) < MaxCalls
    /\ LET r == EndianVec_write(mem, bytes)
       IN /\ mem' = r.vec
          /\ res' = Append(res, Written("write", EndianVec_len(mem), bytes, mem, r))
    /\ UNCHANGED <<endian, rest, bases, target, file, backend, buffer, readers,
                   slices, last, twinVars>>

VecWriteAt(offset, bytes) ==
    /\ Len(res) < MaxCalls
    /\ LET r == EndianVec_write_at(target, mem, offset, bytes)
       IN /\ mem' = r.vec
          /\ res' = Append(res, Written("write_at", offset, bytes, mem, r))
    /\ UNCHANGED <<endian, rest, bases, target, file, backend, buffer, readers,
                   slices, last, twinVars>>

\* The byte sequences written: the empty one and two of the tests'.
WriteBytes == {<<>>, <<6, 7>>, <<3, 4, 5>>}

\* The offsets written at: inside the vec, at its end, past it, and past
\* what a 32-bit usize holds.
WriterOffsets ==
    {[hi |-> 0, lo |-> n] : n \in 0..4} \cup {[hi |-> 1, lo |-> n] : n \in 0..1}

VecInit ==
    /\ mem = EndianVec_new
    /\ endian \in {"Little", "Big"}
    /\ target \in {32, 64}
    /\ rest = <<>>
    /\ bases = <<>>
    /\ res = <<>>
    /\ file = <<>>
    /\ CursorIdle
    /\ TwinIdle

VecNext ==
    \/ \E bytes \in WriteBytes : VecWrite(bytes)
    \/ \E offset \in WriterOffsets, bytes \in WriteBytes : VecWriteAt(offset, bytes)

SpecVec == VecInit /\ [][VecNext]_vars

\* The bytes the slice backend reads back from the vec's slice():
\* EndianSlice::new(w.slice(), endian).to_slice()
ReadBack(vec) == Slice_to_slice(EndianVec_slice(vec), WholeOf(EndianVec_slice(vec))).out

\* The byte sequences of the calls on record, one after another.
RECURSIVE WrittenSoFar(_, _)
WrittenSoFar(calls, n) ==
    IF n = 0 THEN <<>> ELSE WrittenSoFar(calls, n - 1) \o calls[n].bytes

\* C17 (round trip): after any sequence of write calls on an empty
\* EndianVec, the bytes read back through an EndianSlice over slice() are the
\* written byte sequences one after another, in the order written, and len()
\* is their total length; empty sequences included.
C17_RoundTrip ==
    (\A j \in 1..Len(res) : res[j].op = "write") =>
        /\ \A j \in 1..Len(res) : res[j].ok
        /\ ReadBack(mem) = WrittenSoFar(res, Len(res))
        /\ EndianVec_len(mem) = [hi |-> 0, lo |-> Len(WrittenSoFar(res, Len(res)))]

\* C17 witness: three writes, the second of them empty, read back as
\* 6 7 3 4 5.
C17_Witness ==
    /\ Len(res) = 3
    /\ \A j \in 1..3 : res[j].op = "write"
    /\ res[1].bytes = <<6, 7>> /\ res[2].bytes = <<>> /\ res[3].bytes = <<3, 4, 5>>
    /\ ReadBack(mem) = <<6, 7, 3, 4, 5>>

\* offset > len, for a vec of len bytes
OffsetAbove(offset, len) == offset.hi # 0 \/ offset.lo > len

\* C18 (write_at): write_at(offset, bytes) never changes len(); with
\* offset > len it fails with OffsetOutOfBounds; with offset <= len and
\* offset + bytes.len() > len it fails with LengthOutOfBounds; otherwise it
\* overwrites exactly the bytes at [offset, offset + bytes.len()) and leaves
\* the others; a failed call leaves the contents as they were.
C18_WriteAt ==
    \A j \in 1..Len(res) :
        LET c == res[j]
            after == IF j = Len(res) THEN mem ELSE res[j + 1].before
            len == Len(c.before)
        IN c.op = "write_at" =>
              /\ Len(after) = len
              /\ IF OffsetAbove(c.offset, len)
                 THEN ~c.ok /\ c.err = "OffsetOutOfBounds" /\ after = c.before
                 ELSE IF c.offset.lo + Len(c.bytes) > len
                 THEN ~c.ok /\ c.err = "LengthOutOfBounds" /\ after = c.before
                 ELSE /\ c.ok
                      /\ \A k \in 1..len :
                            after[k] = IF k - 1 >= c.offset.lo
                                          /\ k - 1 < c.offset.lo + Len(c.bytes)
                                       THEN c.bytes[k - c.offset.lo]
                                       ELSE c.before[k]

\* C18 witness: writing 6 7 at offset 1 of 3 4 5 gives 3 6 7.
C18_Witness ==
    /\ Len(res) = 2
    /\ res[2].op = "write_at" /\ res[2].ok
    /\ res[2].before = <<3, 4, 5>>
    /\ res[2].offset = [hi |-> 0, lo |-> 1] /\ res[2].bytes = <<6, 7>>
    /\ mem = <<3, 6, 7>>

(***************************************************************************)
(* The window behind its RefCell (examples/bufreader.rs): here `buffer` is *)
(* the cell, its borrow state (0 free, 1 a shared borrow, -1 an exclusive  *)
(* one) and the SectionBuffer in it.                                       *)
(***************************************************************************)
\* RefCell::new
RefCell_new(value) == [borrow |-> 0, value |-> value]

\* RefCell::borrow_mut: granted on a free cell; on a borrowed one it panics
\* ("already borrowed: BorrowMutError").
RefCell_borrow_mut(cell) == cell.borrow = 0

\* What a read through the cell gave, the borrow state it met, and whether
\* the call returned at all.
Attempt(ok, err, out, held, aborted) ==
    [op |-> "read", ok |-> ok, err |-> err, ret |-> <<>>, out |-> out,
     held |-> held, aborted |-> aborted]

\* The process has panicked.
Panicked == last.op = "read" /\ last.aborted

\* The holder of the cell takes a borrow of it and keeps it: buffer.borrow()
\* as dump_file does, or buffer.borrow_mut().
CellBorrow(kind) ==
    /\ backend = "buffered"
    /\ ~Panicked
    /\ buffer.borrow = 0
    /\ buffer' = [buffer EXCEPT !.borrow = IF kind = "borrow_mut" THEN -1 ELSE 1]
    /\ last' = Call(kind, TRUE, "none", <<>>, <<>>)
    /\ UNCHANGED <<backend, file, readers, slices, twinVars, decodeVars>>

\* The borrow is dropped.
CellRelease ==
    /\ backend = "buffered"
    /\ ~Panicked
    /\ buffer.borrow # 0
    /\ buffer' = [buffer EXCEPT !.borrow = 0]
    /\ last' = Call("drop", TRUE, "none", <<>>, <<>>)
    /\ UNCHANGED <<backend, file, readers, slices, twinVars, decodeVars>>

\* read_slice(&mut self, buf) with buf.len() = n, through the cell: the
\* length check, then self.buffer.borrow_mut().read_bytes_at(..), the borrow
\* being dropped at the end of the statement.
CellRead(i, n) ==
    /\ backend = "buffered"
    /\ ~Panicked
    /\ IF readers[i].range_size < n
       THEN /\ last' = Attempt(FALSE, "UnexpectedEof", <<>>, buffer.borrow, FALSE)
            /\ UNCHANGED <<buffer, readers>>
       ELSE IF ~RefCell_borrow_mut(buffer)
       THEN /\ last' = Attempt(FALSE, "BorrowMutError", <<>>, buffer.borrow, TRUE)
            /\ UNCHANGED <<buffer, readers>>
       ELSE LET r == Reader_read_slice(readers[i], buffer.value, file, n, NoFault)
            IN /\ readers' = [readers EXCEPT ![i] = r.self]
               /\ buffer' = [buffer EXCEPT !.value = r.buffer]
               /\ last' = Attempt(r.ok, r.err, r.out, buffer.borrow, FALSE)
    /\ UNCHANGED <<backend, file, slices, twinVars, decodeVars>>

CellInit ==
    /\ backend = "buffered"
    /\ \E n \in FileLens : file = FileOfLen(n)
    /\ \E c \in Capacities : buffer = RefCell_new(SectionBuffer_new(SecOffset, SecSize, c))
    /\ readers = <<SectionReader_new(SecOffset, SecSize)>>
    /\ slices = <<>>
    /\ last = NoCall
    /\ TwinIdle
    /\ DecodeIdle

CellNext ==
    \/ \E kind \in {"borrow", "borrow_mut"} : CellBorrow(kind)
    \/ CellRelease
    \/ \E i \in 1..Len(readers), n \in Lens : CellRead(i, n)

SpecCell == CellInit /\ [][CellNext]_vars

\* A read that got as far as the window while the cell was borrowed.
ReadWhileBorrowed(c) ==
    c.op = "read" /\ c.held # 0 /\ c.err # "UnexpectedEof"

QueriedDerived ==
    backend = "slice" => slices[last.cursor].ptr # StaticEmpty

\* The queried cursor's remaining length, and the base's bytes.
QueriedLen ==
    IF backend = "slice" THEN slices[last.cursor].len
    ELSE readers[last.cursor].range_size

BaseBytes ==
    IF backend = "slice" THEN SliceBytes(BaseSlice) ELSE ReaderBytes(BaseReader)

\* C20 (offset_from): for a cursor derived from a base cursor by successful
\* skip, split, truncate and read operations, offset_from(base) is the
\* number of bytes between the base's start and the cursor's start, is not
\* negative and not above the base's length (the cursor ends inside the
\* base), on both backends; the slice backend's debug assertions hold.
C20_OffsetFrom ==
    (last.op = "offset_from" /\ QueriedDerived) =>
        /\ last.ok
        /\ Len(last.out) = 1
        /\ last.out[1] >= 0
        /\ last.out[1] + QueriedLen <= SecSize
        /\ QueriedBytes = FirstN(SubSeq(BaseBytes, last.out[1] + 1, Len(BaseBytes)),
                                 QueriedLen)

\* C20 witness: a cursor split off after a skip of one byte, asked in a
\* build with debug assertions on the slice backend: one byte from the base.
C20_Witness ==
    /\ backend = "slice"
    /\ last.op = "offset_from" /\ last.ok /\ last.arg
    /\ last.cursor = 2
    /\ slices[2] = EndianSlice_new(1, 1)
    /\ last.out = <<1>>

(***************************************************************************)
(* DebugAddr (read/addr.rs): the .debug_addr section and the lookup of an  *)
(* address by the base of a set of addresses and an index into it.         *)
(***************************************************************************)
\* An offset as a length of the model: the sections here are shorter than
\* 2^16 bytes, and every offset from 2^16 on is above all of their lengths.
OffsetAsLen(x) ==
    IF \E j \in 3..8 : x[j] # 0 THEN 65536 ELSE x[1] + 256 * x[2]

\* ReaderOffset::into_u64 of a usize: a widening, which keeps the value.
Offset_into_u64(x) == ZeroExtend(x)

\* ReaderOffset::from_u64 for a usize of the target's width: the value, or
\* UnsupportedOffset when the width cannot represent it.
Offset_from_u64(width, x) ==
    IF width = 32 /\ \E j \in 5..8 : x[j] # 0
    THEN [ok |-> FALSE, err |-> "UnsupportedOffset", val |-> x]
    ELSE [ok |-> TRUE, err |-> "none", val |-> x]

\* Mutant: the index is taken as a byte offset, without the address size.
Mul_u64_by_one(x, k) == [val |-> x, overflow |-> FALSE]

\* x * u64::from(k): the product modulo 2^64, and whether it left the type
\* (where a build with overflow checks panics).
Mul_u64(x, k) ==
    LET carry[j \in 0..8] ==
            IF j = 0 THEN 0 ELSE (x[j] * k + carry[j - 1]) \div 256
    IN [val |-> [j \in 1..8 |-> (x[j] * k + carry[j - 1]) % 256],
        overflow |-> carry[8] > 0]

\* DebugAddr::get_address on a clone of the section; overflow_checks is the
\* build's setting (on in a debug build, off in a release build).
DebugAddr_get_address(m, e, section, width, address_size, base, index, overflow_checks) ==
    LET input == section
        based == Slice_skip(input, OffsetAsLen(base))
        product == Mul_u64(Offset_into_u64(index), address_size)
        offset == Offset_from_u64(width, product.val)
        indexed == Slice_skip(based.self, OffsetAsLen(offset.val))
    IN IF ~based.ok THEN Ret(FALSE, based.err, "none", <<>>, section)
       ELSE IF product.overflow /\ overflow_checks THEN Panic(section)
       ELSE IF ~offset.ok THEN Ret(FALSE, offset.err, "none", <<>>, section)
       ELSE IF ~indexed.ok THEN Ret(FALSE, indexed.err, "none", <<>>, section)
       ELSE [Reader_read_address(m, e, indexed.self, address_size)
                EXCEPT !.self = section]

\* A lookup as recorded in `res`.
Looked(address_size, base, index, overflow_checks, r) ==
    <<[op |-> "get_address", size |-> address_size, base |-> base,
       index |-> index, overflow_checks |-> overflow_checks,
       ok |-> r.ok, err |-> r.err, val |-> r.val]>>

\* Whether a usize of the target's width can hold x.
FitsOffset(width, x) == width = 64 \/ \A j \in 5..8 : x[j] = 0

\* One lookup in a section: the call changes nothing that a later call reads.
DecGetAddress(address_size, base, index, overflow_checks) ==
    /\ res = <<>>
    /\ FitsOffset(target, base)
    /\ FitsOffset(target, index)
    /\ LET r == DebugAddr_get_address(mem, endian, rest, target, address_size,
                                      base, index, overflow_checks)
       IN /\ rest' = r.self
          /\ res' = Looked(address_size, base, index, overflow_checks, r)
    /\ UNCHANGED <<mem, endian, bases, target, file, backend, buffer, readers,
                   slices, last, twinVars>>

\* The address sizes asked for: the supported ones, none, and one between.
AddrSizes == {0, 1, 2, 3, 4, 8}

\* The bases of a set of addresses: the start, one and two bytes in, past
\* the end of every section here, and 2^32.
AddrBases == { U64(0), U64(1), U64(2), U64(10), <<0, 0, 0, 0, 1, 0, 0, 0>> }

\* The indexes: small ones, 2^31, and the ones whose product with an address
\* size leaves 64 bits: 2^61, 2^61 + 1, 2^62, 2^63 and 2^64 - 1.
AddrIndexes ==
    { U64(0), U64(1), U64(2), U64(9),
      <<0, 0, 0, 128, 0, 0, 0, 0>>,
      <<0, 0, 0, 0, 0, 0, 0, 32>>,
      <<1, 0, 0, 0, 0, 0, 0, 32>>,
      <<0, 0, 0, 0, 0, 0, 0, 64>>,
      <<0, 0, 0, 0, 0, 0, 0, 128>>,
      <<255, 255, 255, 255, 255, 255, 255, 255>> }

AddrInit ==
    /\ mem \in SizedInputs
    /\ endian \in {"Little", "Big"}
    /\ target \in {32, 64}
    /\ rest = WholeOf(mem)
    /\ bases = <<>>
    /\ res = <<>>
    /\ file = <<>>
    /\ CursorIdle
    /\ TwinIdle

AddrNext ==
    \E address_size \in AddrSizes, base \in AddrBases, index \in AddrIndexes,
       overflow_checks \in BOOLEAN :
        DecGetAddress(address_size, base, index, overflow_checks)

SpecAddr == AddrInit /\ [][AddrNext]_vars

\* Whether index * size is 2^64 or more.  The indexes above have a top byte
\* of 0, 32, 64, 128 or 255 and the sizes are 0..4 and 8, for which the top
\* byte alone decides.
ProductOverflows(index, size) == index[8] * size >= 256

\* Whether [base + index * size, base + (index + 1) * size) lies inside a
\* section of len bytes.
AddrInside(base, index, size, len) ==
    /\ \A j \in 3..8 : base[j] = 0 /\ (size > 0 => index[j] = 0)
    /\ (base[1] + 256 * base[2])
         + (IF size = 0 THEN 0 ELSE (index[1] + 256 * index[2]) * size) + size <= len

\* The byte offset base + index * size of a lookup inside the section.
AddrAt(c) ==
    (c.base[1] + 256 * c.base[2]) + (c.index[1] + 256 * c.index[2]) * c.size

\* What the claim asks of one lookup.
AddrAnswer(c) ==
    /\ rest = WholeOf(mem)
    /\ IF AddrInside(c.base, c.index, c.size, Len(mem))
       THEN IF c.size \in {1, 2, 4, 8}
            THEN /\ c.ok
                 /\ c.val = SizedValue(endian,
                                SubSeq(mem, AddrAt(c) + 1, AddrAt(c) + c.size), c.size)
            ELSE ~c.ok /\ c.err = "UnsupportedAddressSize"
       ELSE ~c.ok /\ c.err # "panic"

\* C21 (address lookup): get_address(address_size, base, index) returns the
\* address_size bytes at section offset base + index * address_size as a
\* number, returns an error and neither a panic nor a value from elsewhere
\* whenever that range is not inside the section, also when
\* index * address_size overflows 64 bits, and leaves the section's reader
\* where it was.
C21_GetAddress ==
    \A j \in 1..Len(res) : res[j].op = "get_address" => AddrAnswer(res[j])

\* C21 without the overflowing products: the same for every lookup whose
\* index * address_size stays below 2^64.
C21_GetAddressInRange ==
    \A j \in 1..Len(res) :
        (res[j].op = "get_address" /\ ~ProductOverflows(res[j].index, res[j].size))
            => AddrAnswer(res[j])

\* C21 witness: the second 4-byte address of a set that starts one byte into
\* a little-endian section, and an index past the end refused.
C21_Witness ==
    /\ res # <<>> /\ res[1].op = "get_address"
    /\ endian = "Little" /\ Len(mem) = 9 /\ mem[6] = 188
    /\ res[1].size = 4 /\ res[1].base = U64(1) /\ res[1].index = U64(1)
    /\ res[1].ok /\ res[1].val = <<188, 222, 241, 3, 0, 0, 0, 0>>
    /\ rest = WholeOf(mem)

(***************************************************************************)
(* Properties of read_bytes_at, over the two SectionBuffers.               *)
(***************************************************************************)
\* The two buffers' names.
Sides == {"a", "b"}

\* C22 (refill path): whenever read_bytes_at(file_offset, buf) takes the
\* refill path and succeeds, the window afterwards starts at file_offset and
\* the bytes handed to the caller are the file's bytes at
\* [file_offset, file_offset + len), as many as were asked for.
C22_Refill ==
    \A k \in 1..Len(twinres), x \in Sides :
        LET c == twinres[k]
        IN (c[x].path = "refill" /\ c[x].ok) =>
              /\ twin[x].buf_offset = c.file_offset
              /\ Len(c[x].out) = c.len
              /\ c[x].out = FileRange(file, c.file_offset, c.len)

\* C22 witness: the large window refilled two bytes into the file for a
\* request of two bytes.
C22_Witness ==
    /\ twinres # <<>>
    /\ twinres[1].b.path = "refill" /\ twinres[1].b.ok
    /\ twinres[1].file_offset = 2 /\ twinres[1].len = 2
    /\ twinres[1].b.out = <<48, 191>>
    /\ twin.b.buf_offset = 2 /\ twin.b.buf_size = 3

\* Whether a request lies outside the section of a buffer.
OutsideSection(self, file_offset, len) ==
    \/ file_offset < self.file_offset
    \/ file_offset + len > self.file_offset + self.file_size

\* The bytes the file holds in the section's range.
SectionByteSet(self, f) ==
    {f[k + 1] : k \in self.file_offset..(Min(self.file_offset + self.file_size, Len(f)) - 1)}

\* C23 (range check): a request that starts before the section or ends after
\* it fails with the I/O error, whatever the window holds and also when it
\* asks for no bytes, and no byte from outside the section's range reaches a
\* caller.
C23_RangeChecked ==
    \A k \in 1..Len(twinres), x \in Sides :
        LET c == twinres[k]
        IN /\ OutsideSection(twin[x], c.file_offset, c.len) =>
                 ~c[x].ok /\ c[x].err = "Io" /\ c[x].out = <<>>
           /\ \A j \in 1..Len(c[x].out) : c[x].out[j] \in SectionByteSet(twin[x], file)

\* C23 witness: a request for no bytes one past the end of the section, on a
\* file that has a byte there, refused by both buffers after the range check.
C23_Witness ==
    /\ twinres # <<>>
    /\ file = FileWithTrailer
    /\ twinres[1].file_offset = SecOffset + SecSize + 1 /\ twinres[1].len = 0
    /\ ~twinres[1].a.ok /\ twinres[1].a.path = "range"
    /\ ~twinres[1].b.ok /\ twinres[1].b.path = "range"
    /\ twin.b.buf_size > 0

\* Whether [file_offset, file_offset + len) lies inside the window of a buffer.
CoveredByWindow(self, file_offset, len) ==
    /\ self.buf_offset <= file_offset
    /\ file_offset + len <= self.buf_offset + self.buf_size

\* A file that cannot be read at all: it is empty and every seek fails.
NoFile == <<>>
SeekFails == [kind |-> "seek", k |-> 0]

\* C24 (frame of the fast and bypass paths): only the refill path changes the
\* window.  A request that lies inside the window succeeds without the file
\* (it is served the same when the file cannot be read) and leaves the
\* window's start, valid count and contents as they were; a request of at
\* least the window's capacity is read straight from the file into the
\* caller's buffer and leaves them as they were too.
C24_WindowFrame ==
    [][ \A x \in Sides :
          LET c == twinres'[1]
              w == twin[x]
          IN /\ c[x].path # "refill" => twin'[x] = w
             /\ CoveredByWindow(w, c.file_offset, c.len) =>
                   /\ c[x].ok /\ c[x].path = "fast"
                   /\ twin'[x] = w
                   /\ c[x].out = ReadBytesAt(w, NoFile, c.file_offset, c.len, SeekFails).out
             /\ (~CoveredByWindow(w, c.file_offset, c.len) /\ c.len >= Len(w.buf)) =>
                   /\ c[x].path \in {"bypass", "range"}
                   /\ twin'[x] = w
                   /\ c[x].ok => c[x].out = FileRange(file, c.file_offset, c.len)
                   /\ c[x].ok => Len(c[x].out) = c.len
      ]_vars

\* C24 witness: with a one-byte window filled at the section's start, a
\* request of two bytes further in went past the window into the caller's
\* buffer, and the window is where it was.
C24_Witness ==
    /\ twinres # <<>>
    /\ twinres[1].a.path = "bypass" /\ twinres[1].a.ok
    /\ twinres[1].file_offset = SecOffset + 1 /\ twinres[1].len = 2
    /\ twinres[1].a.out = <<48, 191>>
    /\ twin.a.buf_offset = SecOffset /\ twin.a.buf_size = 1 /\ twin.a.buf = <<48>>
    /\ twinres[1].b.path = "fast"

\* Whether the byte is among the bytes.
Holds(bytes, byte) == \E j \in 1..Len(bytes) : bytes[j] = byte

\* What the claim asks of the requests q of a find for byte on the cursor r.
ChunksBounded(r, byte, q) ==
    /\ Len(q) * FindChunk < r.range_size + FindChunk
    /\ \A k \in 1..Len(q) :
          /\ q[k].len <= FindChunk
          /\ q[k].file_offset = IF k = 1 THEN r.range_start
                                ELSE q[k - 1].file_offset + q[k - 1].len
          /\ k < Len(q) => q[k].ok /\ ~Holds(q[k].out, byte)

\* C25 (find terminates): a buffered find over n remaining bytes makes at most
\* ceil(n / chunk) requests through the cache, each of at most a chunk and
\* each starting where the one before it ended, and none after the first
\* chunk that holds the byte or after a request that failed.
C25_FindTerminates ==
    [][ (backend = "buffered" /\ last'.op = "find") =>
            ChunksBounded(readers[last'.cursor], last'.arg,
                          Reader_find(readers[last'.cursor], buffer, file,
                                      last'.arg).chunks)
      ]_vars

\* C25 witness: the byte 228 found in the second chunk of the whole section,
\* at index 3, after two requests.
C25_Witness ==
    /\ backend = "buffered"
    /\ last.op = "find" /\ last.ok /\ last.arg = 228 /\ last.out = <<3>>
    /\ readers[last.cursor] = SectionReader_new(SecOffset, SecSize)
    /\ buffer.buf_offset = SecOffset + FindChunk

(***************************************************************************)
(* One SectionBuffer and the requests made of it, on a file whose seeks    *)
(* and reads may fail: a seek that fails, or a read that fails after some  *)
(* of its bytes were transferred.                                          *)
(***************************************************************************)
\* A request as recorded in `last`.
Requested(file_offset, len, fault, r) ==
    [op |-> "read_bytes_at", ok |-> r.ok, err |-> r.err, ret |-> <<>>,
     out |-> r.out, path |-> r.path, file_offset |-> file_offset, len |-> len,
     fault |-> fault.kind]

RequestInit ==
    /\ backend = "buffered"
    /\ file \in {FileOfLen(n) : n \in FileLens}
    /\ \E c \in Capacities : buffer = SectionBuffer_new(SecOffset, SecSize, c)
    /\ readers = <<>>
    /\ slices = <<>>
    /\ last = NoCall
    /\ TwinIdle
    /\ DecodeIdle

\* read_bytes_at(file_offset, buf) on the buffer.
BufRequest(file_offset, len, fault) ==
    /\ LET r == ReadBytesAt(buffer, file, file_offset, len, fault)
       IN /\ buffer' = r.self
          /\ last' = Requested(file_offset, len, fault, r)
    /\ UNCHANGED <<backend, file, readers, slices, twinVars, decodeVars>>

RequestNext ==
    \E file_offset \in Offsets, len \in Lens, fault \in Faults(SecSize - 1) :
        BufRequest(file_offset, len, fault)

SpecRequest == RequestInit /\ [][RequestNext]_vars

\* The valid part of a window is the file's bytes at the window's place.
Coherent(self, f) ==
    SubSeq(self.buf, 1, self.buf_size) = FileRange(f, self.buf_offset, self.buf_size)

\* C26 (cache coherence): in every reachable state the valid part of the
\* window is the file's bytes at [buf_offset, buf_offset + buf_size), also
\* after a request that failed with the I/O error during a refill, and so
\* every request that succeeds returns the file's bytes of its range.
C26_Coherent ==
    /\ Coherent(buffer, file)
    /\ (last.op = "read_bytes_at" /\ last.ok) =>
          last.out = FileRange(file, last.file_offset, last.len)

\* C26 as far as it holds: a request keeps the window coherent unless it is
\* a refill whose read failed (a failed seek keeps it too), and a request that
\* succeeds on a coherent window returns the file's bytes of its range.
C26_CoherentUnlessReadFailed ==
    [][ (Coherent(buffer, file)
           /\ ~(last'.path = "refill" /\ ~last'.ok /\ last'.fault # "seek")) =>
            /\ Coherent(buffer', file)
            /\ last'.ok => last'.out = FileRange(file, last'.file_offset, last'.len)
      ]_vars

\* C26 witness: on the whole file, a refill whose read failed after one byte
\* left the window's description as it was, with its first byte overwritten.
C26_Witness ==
    /\ Len(file) = SecOffset + SecSize
    /\ last.op = "read_bytes_at" /\ ~last.ok /\ last.path = "refill"
    /\ last.fault = "read"
    /\ buffer.buf_offset = SecOffset /\ buffer.buf_size = SecSize - 1
    /\ buffer.buf[1] # file[SecOffset + 1]

\* The window and every cursor lie inside the section, and the window's
\* valid part inside its capacity.
InsideSection ==
    /\ buffer.file_offset <= buffer.buf_offset
    /\ buffer.buf_offset + buffer.buf_size <= buffer.file_offset + buffer.file_size
    /\ buffer.buf_size <= Len(buffer.buf)
    /\ buffer.buf_size >= 0
    /\ \A i \in 1..Len(readers) :
          /\ readers[i].range_start >= buffer.file_offset
          /\ readers[i].range_size >= 0
          /\ readers[i].range_start + readers[i].range_size
                <= buffer.file_offset + buffer.file_size

\* C27 (bounds of the buffered backend): in every reachable state the window
\* lies inside the section and its valid part inside its capacity, the
\* capacity and the section's range never change, and every cursor made from
\* the section's first cursor by skip, split, truncate, empty and reads lies
\* inside the section.
C27_Bounds ==
    /\ [](backend = "buffered" => InsideSection)
    /\ [][ backend = "buffered" =>
              /\ Len(buffer'.buf) = Len(buffer.buf)
              /\ buffer'.file_offset = buffer.file_offset
              /\ buffer'.file_size = buffer.file_size ]_vars

\* C27 witness: a window that ends with the section and starts inside it,
\* and two cursors, the second ending with the section after a byte was cut
\* off its front.
C27_Witness ==
    /\ backend = "buffered"
    /\ buffer.buf_offset > SecOffset /\ buffer.buf_size > 0
    /\ buffer.buf_offset + buffer.buf_size = SecOffset + SecSize
    /\ Len(readers) = 2
    /\ readers[2].range_start > SecOffset
    /\ readers[2].range_start + readers[2].range_size = SecOffset + SecSize
    /\ readers[2].range_size > 0

(***************************************************************************)
(* The buffered backend against the slice backend.                         *)
(***************************************************************************)
\* The EndianSlice over the section's bytes that stands where a
\* SectionReader stands: the same offset from the section's start and the
\* same length.
SliceOf(r) == EndianSlice_new(r.range_start - buffer.file_offset, r.range_size)

\* The same success or failure, and the same cursor afterwards.
SameOutcome(x, y) == x.ok = y.ok /\ x.err = y.err /\ SliceOf(x.self) = y.self

\* C28 (the buffered backend refines the slice backend): on a file that holds
\* the whole section, in every state a sequence of operations on cursors that
\* share the window leads to, skip, split, truncate, a read of n bytes, find
\* and to_slice on any of the cursors return what the same operation returns
\* on the EndianSlice at the same place of the section's bytes and leave the
\* cursor at the same offset with the same length, whichever cursor filled
\* the window last.
C28_Refines ==
    (backend = "buffered" /\ Len(file) >= SecOffset + SecSize) =>
        \A i \in 1..Len(readers) :
            LET r == readers[i]
                s == SliceOf(r)
            IN /\ \A n \in Lens :
                    /\ SameOutcome(Reader_skip(r, n), Slice_skip(s, n))
                    /\ SameOutcome(Reader_truncate(r, n), Slice_truncate(s, n))
                    /\ LET x == Reader_split(r, n)
                           y == Slice_read_slice(s, n)
                       IN /\ SameOutcome(x, y)
                          /\ [k \in 1..Len(x.val) |-> SliceOf(x.val[k])] = y.val
                    /\ LET x == Reader_read_slice(r, buffer, file, n, NoFault)
                           y == Slice_read_slice(s, n)
                       IN /\ SameOutcome(x, y)
                          /\ x.out = IF y.ok THEN SliceBytes(y.val[1]) ELSE <<>>
               /\ \A b \in FindBytes :
                    LET x == Reader_find(r, buffer, file, b)
                        y == Slice_find(Mem, s, b)
                    IN x.ok = y.ok /\ x.err = y.err /\ x.val = y.val
               /\ LET x == Reader_to_slice(r, buffer, file)
                      y == Slice_to_slice(Mem, s)
                  IN SameOutcome(x, y) /\ x.out = y.out

\* C28 witness: two cursors on the whole file, the window filled for the one
\* further in by a read of a byte, and the other standing before the window
\* with more than the window holds.
C28_Witness ==
    /\ backend = "buffered" /\ Len(file) = SecOffset + SecSize
    /\ Len(readers) = 2
    /\ last.op = "read" /\ last.ok /\ Len(last.out) = 1
    /\ buffer.buf_offset > SecOffset /\ buffer.buf_size > 0
    /\ \E i \in 1..2 :
          /\ readers[i].range_start = SecOffset
          /\ readers[i].range_size > buffer.buf_size

\* The buffer as SectionBuffer::new makes it: the same file, section and
\* capacity, and an empty window.
Fresh(self) == SectionBuffer_new(self.file_offset, self.file_size, Len(self.buf))

\* Every request has the same outcome on the buffer as on a fresh one.
AsOnFresh(self, f) ==
    \A file_offset \in Offsets, len \in Lens :
        LET x == ReadBytesAt(self, f, file_offset, len, NoFault)
            y == ReadBytesAt(Fresh(self), f, file_offset, len, NoFault)
        IN x.ok = y.ok /\ x.out = y.out

\* Every request whose bytes lie inside the section and are in the file
\* succeeds with them.
ServedWhenInFile(self, f) ==
    \A file_offset \in Offsets, len \in Lens :
        (/\ ~OutsideSection(self, file_offset, len)
         /\ file_offset + len <= Len(f)) =>
            LET x == ReadBytesAt(self, f, file_offset, len, NoFault)
            IN x.ok /\ x.out = FileRange(f, file_offset, len)

\* C29 (the window does not show): what read_bytes_at(file_offset, len)
\* returns depends on the request, the section and the file only: a buffer
\* in any window state earlier requests led it to answers every request as a
\* buffer with an empty window does, and a request whose bytes lie inside the
\* section and are in the file succeeds, also when the file ends before the
\* section does.
C29_WindowIndependent ==
    AsOnFresh(buffer, file) /\ ServedWhenInFile(buffer, file)

\* C29 on a file that holds the whole section, for a window that is the
\* file's bytes.
C29_WindowIndependentWholeFile ==
    (Len(file) >= SecOffset + SecSize /\ Coherent(buffer, file)) =>
        AsOnFresh(buffer, file) /\ ServedWhenInFile(buffer, file)

\* C29 witness: on the whole file, a request of two bytes served from a
\* window of more than one byte that starts inside the section.
C29_Witness ==
    /\ Len(file) = SecOffset + SecSize
    /\ last.op = "read_bytes_at" /\ last.ok /\ last.path = "fast" /\ last.len = 2
    /\ buffer.buf_offset > SecOffset /\ buffer.buf_size >= 2
    /\ Coherent(buffer, file)
    /\ buffer # Fresh(buffer)

(***************************************************************************)
(* Reads that fall short: a parse session on either backend, or a decoder  *)
(* over a section that ends inside an initial length.                      *)
(***************************************************************************)
\* Every prefix of a 64-bit initial length and of a 32-bit one.
ShortInputs ==
    {SubSeq(b, 1, n) : n \in 0..12,
                       b \in { <<255, 255, 255, 255, 18, 52, 86, 120, 154, 188, 222, 255>>,
                               <<18, 52, 86, 120, 255, 255, 255, 255, 1, 0, 0, 0>> }}

ShortInit ==
    /\ mem \in ShortInputs
    /\ endian \in {"Little", "Big"}
    /\ target = 64
    /\ rest = WholeOf(mem)
    /\ bases = <<>>
    /\ res = <<>>
    /\ file = <<>>
    /\ CursorIdle
    /\ TwinIdle

EofInit == Init \/ ShortInit

EofNext ==
    \/ \E i \in 1..Len(slices), n \in Lens : SliceSkip(i, n)
    \/ \E i \in 1..Len(slices), n \in Lens : SliceSplit(i, n)
    \/ \E i \in 1..Len(slices), n \in Lens : SliceRead(i, n)
    \/ \E i \in 1..Len(readers), n \in Lens : ReaderSkip(i, n)
    \/ \E i \in 1..Len(readers), n \in Lens : ReaderSplit(i, n)
    \/ \E i \in 1..Len(readers), n \in Lens : ReaderRead(i, n, NoFault)
    \/ backend = "none" /\ DecReadInitialLength
    \/ backend = "none" /\ \E format \in {"Dwarf32", "Dwarf64"} : DecReadWord(format)

SpecEof == EofInit /\ [][EofNext]_vars

\* A call asking for n bytes of a cursor with `left` bytes left failed with
\* UnexpectedEof exactly when n is more than is left.
EofExactly(c, n, left) == (~c.ok /\ c.err = "UnexpectedEof") <=> n > left

\* C30 (falling short): skip(n), split(n) and a read of k bytes fail with
\* UnexpectedEof exactly when n, or k, is more than the cursor has left; a
\* skip, split or read that failed, a buffered read that failed with the I/O
\* error too, leaves the cursor's start and length as they were; and
\* read_initial_length fails with UnexpectedEof on fewer than 4 bytes and on
\* 0xffffffff followed by fewer than 8.
C30_UnexpectedEof ==
    /\ [](\A k \in 1..Len(res) :
            LET c == res[k]
                b == SliceBytesIn(mem, c.before)
            IN /\ c.op = "read_initial_length" =>
                    ((\/ Len(b) < 4
                      \/ (Len(b) < 12 /\ \A j \in 1..4 : b[j] = 255)) =>
                        ~c.ok /\ c.err = "UnexpectedEof")
               /\ c.op = "read_word" =>
                    /\ EofExactly(c, c.size, Len(b))
                    /\ (c.ok <=> c.size <= Len(b))
                    /\ ~c.ok => rest = c.before)
    /\ [][ /\ \A i \in 1..Len(slices), n \in Lens :
                /\ (SliceSkip(i, n) \/ SliceSplit(i, n) \/ SliceRead(i, n)) =>
                      /\ EofExactly(last', n, slices[i].len)
                      /\ (last'.ok <=> n <= slices[i].len)
                      /\ ~last'.ok => slices' = slices
           /\ \A i \in 1..Len(readers), n \in Lens :
                /\ (ReaderSkip(i, n) \/ ReaderSplit(i, n)) =>
                      /\ EofExactly(last', n, readers[i].range_size)
                      /\ (last'.ok <=> n <= readers[i].range_size)
                      /\ ~last'.ok => readers' = readers
                /\ ReaderRead(i, n, NoFault) =>
                      /\ EofExactly(last', n, readers[i].range_size)
                      /\ ~last'.ok => last'.err \in {"UnexpectedEof", "Io"}
                      /\ ~last'.ok => readers' = readers
         ]_vars

\* C30 witness: 0xffffffff and four more bytes, where read_initial_length
\* fails with UnexpectedEof.
C30_Witness ==
    /\ mem = <<255, 255, 255, 255, 18, 52, 86, 120>>
    /\ res # <<>> /\ res[1].op = "read_initial_length"
    /\ res[1].before = WholeOf(mem)
    /\ ~res[1].ok /\ res[1].err = "UnexpectedEof"

====
